---- MODULE Spec2Model ----
(***************************************************************************)
(* Model of the chunking engine of src/chunkers.py: TextChunker,           *)
(* HTMLChunker, CodeChunker, JsonChunker and SmartChunker.  A string is a  *)
(* sequence of one-character strings; a chunk is a record                  *)
(* [content, metadata]; uuid.uuid4() is a counter of fresh identifiers.    *)
(***************************************************************************)
EXTENDS Integers, Sequences, FiniteSets, TLC

VARIABLES
    chunker,        \* the class whose chunk() is called
    content,        \* argument content: the raw string
    soup,           \* the tree BeautifulSoup parses content into
    chunk_size,     \* argument chunk_size
    chunk_overlap,  \* argument chunk_overlap
    pc,             \* "ready" before the call, "done" after it
    outcome,        \* "none", "returned", or the exception the call raised
    chunks,         \* the list the call returned
    uid,            \* number of identifiers uuid.uuid4() has handed out
    text_ids,       \* history: the chunk_ids of the TextChunker chunks that an
                    \* HTMLChunker call read and re-tagged
    content_type,   \* argument content_type of SmartChunker.chunk
    detected,       \* what detect_content_type returned, None before it did
    calls,          \* the invocations that run side by side, in the order of
                    \* their start: arguments, position, locals and result
    collection,     \* the records the storage backend holds for the collection
    request         \* the storage request being served: its arguments, its
                    \* position and its locals

vars == <<chunker, content, soup, chunk_size, chunk_overlap, pc, outcome, chunks,
          uid, text_ids, content_type, detected, calls, collection, request>>

-----------------------------------------------------------------------------
(* Bounds of the model *)

MaxLen == 7         \* longest raw text content given to TextChunker
MaxPlainLen == 5    \* longest content given to JsonChunker that is not JSON
MaxSize == 3        \* largest chunk_size given to the text splitter
MaxOverlap == 1     \* largest chunk_overlap
MaxItems == 3       \* most keys of a JSON object, most elements of a JSON array
JsonSizeStep == 4   \* the chunk_size values given with JSON content are
MaxJsonSteps == 6   \* 0, JsonSizeStep, ..., MaxJsonSteps * JsonSizeStep
MaxNodes == 2       \* most elements in the body of an HTML document
MaxLines == 2       \* most lines of a source file
MaxSmart == 1       \* most items, lines of a content given to SmartChunker
MaxCalls == 2       \* most invocations started on one engine

-----------------------------------------------------------------------------
(* Strings *)

Whitespace == {" ", "\n"}
Punct == {".", "!", "?"}
Alphabet == {"a", ".", " ", "\n"}
Letters ==
    <<"a", "b", "c", "d", "e", "f", "g", "h", "i", "j", "k", "l", "m",
      "n", "o", "p", "q", "r", "s", "t", "u", "v", "w", "x", "y", "z">>
Capitals ==
    <<"A", "B", "C", "D", "E", "F", "G", "H", "I", "J", "K", "L", "M",
      "N", "O", "P", "Q", "R", "S", "T", "U", "V", "W", "X", "Y", "Z">>

MinOf(S) == CHOOSE x \in S : \A y \in S : x <= y
MaxOf(S) == CHOOSE x \in S : \A y \in S : x >= y

\* s[i:j] of Python for 0 <= i, 0 <= j
Slice(s, i, j) == SubSeq(s, i + 1, IF j < Len(s) THEN j ELSE Len(s))

\* str.strip()
Strip(s) ==
    LET keep == {i \in 1..Len(s) : s[i] \notin Whitespace}
    IN  IF keep = {} THEN <<>> ELSE SubSeq(s, MinOf(keep), MaxOf(keep))

\* last index of the run of whitespace that starts at i
RunEnd(s, i) ==
    MaxOf({j \in i..Len(s) : \A k \in i..j : s[k] \in Whitespace})

\* end of the match of \n\s*\n that starts at i, 0 when there is none
ParaMatchEnd(s, i) ==
    IF s[i] # "\n" THEN 0
    ELSE LET ks == {k \in (i + 1)..RunEnd(s, i) : s[k] = "\n"}
         IN  IF ks = {} THEN 0 ELSE MaxOf(ks)

\* re.split(r'\n\s*\n', s)
RECURSIVE SplitParagraphs(_)
SplitParagraphs(s) ==
    LET ms == {i \in 1..Len(s) : ParaMatchEnd(s, i) # 0}
    IN  IF ms = {} THEN <<s>>
        ELSE LET i == MinOf(ms)
             IN  <<SubSeq(s, 1, i - 1)>>
                 \o SplitParagraphs(SubSeq(s, ParaMatchEnd(s, i) + 1, Len(s)))

\* re.split(r'(?<=[.!?])\s+', s)
RECURSIVE SplitSentences(_)
SplitSentences(s) ==
    LET ms == {i \in 2..Len(s) : s[i] \in Whitespace /\ s[i - 1] \in Punct}
    IN  IF ms = {} THEN <<s>>
        ELSE LET i == MinOf(ms)
             IN  <<SubSeq(s, 1, i - 1)>>
                 \o SplitSentences(SubSeq(s, RunEnd(s, i) + 1, Len(s)))

-----------------------------------------------------------------------------
(* Identifiers and metadata.  A metadata value is a Python scalar: a str,  *)
(* an int, a bool, a float (kept as its literal) or None.                  *)

\* a str holds a sequence of characters
PyStr(s) == [str |-> s]
PyInt(n) == [int |-> n]
PyBool(b) == [bool |-> b]
PyFloat(literal) == [float |-> literal]
PyList(items) == [list |-> items]
PyNone == [none |-> TRUE]

\* the values of chunk_type
TypeText == <<"t", "e", "x", "t">>
TypeHtml == <<"h", "t", "m", "l">>
TypeCode == <<"c", "o", "d", "e">>
TypeJson == <<"j", "s", "o", "n">>

\* mutant: one identifier made once and used for every chunk
Uuid4Reused(n) == PyStr(<<"u", 1>>)

\* str(uuid.uuid4()) when n identifiers were handed out before
Uuid4(n) == PyStr(<<"u", n + 1>>)

RECURSIVE JoinWith(_, _)
JoinWith(parts, sep) ==
    IF parts = <<>> THEN <<>>
    ELSE IF Len(parts) = 1 THEN parts[1]
    ELSE parts[1] \o sep \o JoinWith(Tail(parts), sep)

\* _validate_metadata_value: a list of strings becomes ' '.join(...), a
\* str, int, float, bool or None is returned as it is
ValidateMetadataValue(value) ==
    IF "list" \in DOMAIN value THEN PyStr(JoinWith(value.list, <<" ">>)) ELSE value

-----------------------------------------------------------------------------
(* TextChunker.chunk.  The locals of one call are a record                 *)
(* [chunks, current_chunk, current_size, uid, raised].                     *)

TextStart(n) ==
    [chunks |-> <<>>, current_chunk |-> <<>>, current_size |-> 0,
     uid |-> n, raised |-> "none"]

\* mutant: chunk_index is drawn from a counter the invocations share
TextAppendIndexFromUid(st, text) ==
    [st EXCEPT
       !.chunks = Append(@, [content |-> text,
                             metadata |-> [chunk_type |-> ValidateMetadataValue(PyStr(TypeText)),
                                           chunk_id |-> Uuid4(st.uid),
                                           chunk_index |-> PyInt(st.uid)]]),
       !.uid = @ + 1]

\* chunks.append({"content": text, "metadata": {chunk_type, chunk_id, chunk_index}})
TextAppend(st, text) ==
    [st EXCEPT
       !.chunks = Append(@, [content |-> text,
                             metadata |-> [chunk_type |-> ValidateMetadataValue(PyStr(TypeText)),
                                           chunk_id |-> Uuid4(st.uid),
                                           chunk_index |-> PyInt(Len(st.chunks))]]),
       !.uid = @ + 1]

\* "if current_chunk: chunks.append(...)"
TextFlush(st) ==
    IF st.current_chunk # <<>> THEN TextAppend(st, st.current_chunk) ELSE st

\* the values of range(0, stop, step) for step > 0, in order
RangeFrom0(stop, step) ==
    [k \in 1..((stop + step - 1) \div step) |-> (k - 1) * step]

\* "for i in range(...): chunk_text = sentence[i:i + chunk_size];
\* chunks.append(...)", i running over starts: the k-th pass appends to the
\* k - 1 chunks of the passes before it and draws the k-th identifier
TextWindows(st, sentence, starts, size) ==
    [st EXCEPT
       !.chunks = @ \o [k \in 1..Len(starts) |->
                          [content |-> Slice(sentence, starts[k], starts[k] + size),
                           metadata |-> [chunk_type |-> ValidateMetadataValue(PyStr(TypeText)),
                                         chunk_id |-> Uuid4(st.uid + k - 1),
                                         chunk_index |-> PyInt(Len(st.chunks) + k - 1)]]],
       !.uid = @ + Len(starts)]

\* mutant: the window start advances by chunk_size, without the overlap
TextSliceSentenceNoOverlap(st, sentence, size, overlap) ==
    IF size <= 0 THEN [st EXCEPT !.raised = "ValueError"]
    ELSE TextWindows(st, sentence, RangeFrom0(Len(sentence), size), size)

\* "for i in range(0, len(sentence), chunk_size - chunk_overlap)": range()
\* raises ValueError for a step of 0 and is empty for a negative step
TextSliceSentence(st, sentence, size, overlap) ==
    IF size - overlap = 0 THEN [st EXCEPT !.raised = "ValueError"]
    ELSE IF size - overlap < 0 THEN st
    ELSE TextWindows(st, sentence, RangeFrom0(Len(sentence), size - overlap), size)

\* body of "for sentence in sentences"
TextSentenceStep(st, sentence, size, overlap) ==
    IF st.raised # "none" THEN st
    ELSE IF st.current_size + Len(sentence) <= size
    THEN [st EXCEPT
            !.current_chunk = (IF @ # <<>> THEN @ \o <<" ">> ELSE @) \o sentence,
            !.current_size = @ + Len(sentence) + 1]
    ELSE LET flushed == TextFlush(st)
         IN  IF Len(sentence) > size
             THEN TextSliceSentence(flushed, sentence, size, overlap)
             ELSE [flushed EXCEPT !.current_chunk = sentence,
                                  !.current_size = Len(sentence)]

RECURSIVE TextSentences(_, _, _, _)
TextSentences(st, sentences, size, overlap) ==
    IF sentences = <<>> THEN st
    ELSE TextSentences(TextSentenceStep(st, Head(sentences), size, overlap),
                       Tail(sentences), size, overlap)

\* body of "for para in paragraphs"
TextParagraphStep(st, raw, size, overlap) ==
    LET para == Strip(raw)
    IN  IF st.raised # "none" \/ para = <<>> THEN st
        ELSE IF st.current_size + Len(para) <= size
        THEN [st EXCEPT
                !.current_chunk = (IF @ # <<>> THEN @ \o <<"\n", "\n">> ELSE @) \o para,
                !.current_size = @ + Len(para) + 2]
        ELSE LET flushed == TextFlush(st)
             IN  IF Len(para) > size
                 THEN TextSentences([flushed EXCEPT !.current_chunk = <<>>,
                                                    !.current_size = 0],
                                    SplitSentences(para), size, overlap)
                 ELSE [flushed EXCEPT !.current_chunk = para,
                                      !.current_size = Len(para)]

RECURSIVE TextParagraphs(_, _, _, _)
TextParagraphs(st, paragraphs, size, overlap) ==
    IF paragraphs = <<>> THEN st
    ELSE TextParagraphs(TextParagraphStep(st, Head(paragraphs), size, overlap),
                        Tail(paragraphs), size, overlap)

\* TextChunker.chunk(text, size, overlap) with n identifiers handed out
\* before: [outcome, chunks, uid]
TextResult(fin) ==
    IF fin.raised = "none"
    THEN [outcome |-> "returned", chunks |-> fin.chunks, uid |-> fin.uid]
    ELSE [outcome |-> fin.raised, chunks |-> <<>>, uid |-> fin.uid]

\* the final "if current_chunk", reached unless an exception left the loop
TextFinish(st) == IF st.raised = "none" THEN TextFlush(st) ELSE st

TextChunk(text, size, overlap, n) ==
    TextResult(TextFinish(TextParagraphs(TextStart(n), SplitParagraphs(text),
                                         size, overlap)))

-----------------------------------------------------------------------------
(* JSON values, json.dumps and json.loads.  A value is a natural number, a *)
(* string, an object (a list of key/value pairs in insertion order, as a   *)
(* Python dict keeps them) or an array; members of objects and arrays are  *)
(* numbers and strings.                                                    *)

JInt(n) == [t |-> "int", n |-> n]
JStr(s) == [t |-> "str", s |-> s]
JObj(pairs) == [t |-> "obj", pairs |-> pairs]
JArr(items) == [t |-> "arr", items |-> items]

Digits == <<"0", "1", "2", "3", "4", "5", "6", "7", "8", "9">>
DigitSet == {Digits[i] : i \in 1..Len(Digits)}
DigitVal(c) == (CHOOSE i \in 1..Len(Digits) : Digits[i] = c) - 1

\* str(n) for n >= 0
RECURSIVE DumpsInt(_)
DumpsInt(n) ==
    IF n < 10 THEN <<Digits[n + 1]>> ELSE DumpsInt(n \div 10) \o <<Digits[(n % 10) + 1]>>

\* int(s) for a string of digits
RECURSIVE IntOf(_)
IntOf(s) ==
    IF s = <<>> THEN 0 ELSE 10 * IntOf(SubSeq(s, 1, Len(s) - 1)) + DigitVal(s[Len(s)])

DumpsScalar(v) ==
    IF v.t = "int" THEN DumpsInt(v.n) ELSE <<"\"">> \o v.s \o <<"\"">>

\* json.dumps(v) with the default separators ", " and ": "
Dumps(v) ==
    IF v.t = "obj"
    THEN <<"{">>
         \o JoinWith([i \in 1..Len(v.pairs) |->
                        <<"\"">> \o v.pairs[i].k \o <<"\"", ":", " ">>
                        \o DumpsScalar(v.pairs[i].v)], <<",", " ">>)
         \o <<"}">>
    ELSE IF v.t = "arr"
    THEN <<"[">>
         \o JoinWith([i \in 1..Len(v.items) |-> DumpsScalar(v.items[i])], <<",", " ">>)
         \o <<"]">>
    ELSE DumpsScalar(v)

NoParse == [ok |-> FALSE]

\* first index >= i that holds no JSON whitespace (Len(s) + 1 when none)
SkipWs(s, i) ==
    MinOf({j \in i..(Len(s) + 1) : j = Len(s) + 1 \/ s[j] \notin Whitespace})

\* a string literal at i: no escapes, no control characters
ParseString(s, i) ==
    IF i > Len(s) \/ s[i] # "\"" THEN NoParse
    ELSE LET qs == {j \in (i + 1)..Len(s) : s[j] = "\""}
         IN  IF qs = {} THEN NoParse
             ELSE LET j == MinOf(qs)
                  IN  IF \E k \in (i + 1)..(j - 1) : s[k] \in {"\n", "\\"}
                      THEN NoParse
                      ELSE [ok |-> TRUE, v |-> JStr(SubSeq(s, i + 1, j - 1)), next |-> j + 1]

\* a number literal at i: digits without a leading zero, sign, fraction or
\* exponent
ParseNumber(s, i) ==
    IF i > Len(s) \/ s[i] \notin DigitSet THEN NoParse
    ELSE LET e == MaxOf({j \in i..Len(s) : \A k \in i..j : s[k] \in DigitSet})
         IN  IF (e > i /\ s[i] = "0") \/ (e < Len(s) /\ s[e + 1] \in {".", "e", "E"})
             THEN NoParse
             ELSE [ok |-> TRUE, v |-> JInt(IntOf(SubSeq(s, i, e))), next |-> e + 1]

ParseScalar(s, i) ==
    IF i <= Len(s) /\ s[i] = "\"" THEN ParseString(s, i) ELSE ParseNumber(s, i)

\* d[key] = value on a dict kept as a list of pairs
DictSet(pairs, key, value) ==
    IF \E i \in 1..Len(pairs) : pairs[i].k = key
    THEN [i \in 1..Len(pairs) |->
            IF pairs[i].k = key THEN [k |-> key, v |-> value] ELSE pairs[i]]
    ELSE Append(pairs, [k |-> key, v |-> value])

\* the members of an object from i on, up to and including "}"
RECURSIVE ParseMembers(_, _, _)
ParseMembers(s, i, acc) ==
    LET key == ParseString(s, SkipWs(s, i))
    IN  IF ~key.ok THEN NoParse
        ELSE LET c == SkipWs(s, key.next)
             IN  IF c > Len(s) \/ s[c] # ":" THEN NoParse
                 ELSE LET val == ParseScalar(s, SkipWs(s, c + 1))
                      IN  IF ~val.ok THEN NoParse
                          ELSE LET e == SkipWs(s, val.next)
                                   got == DictSet(acc, key.v.s, val.v)
                               IN  IF e > Len(s) THEN NoParse
                                   ELSE IF s[e] = "}"
                                   THEN [ok |-> TRUE, v |-> JObj(got), next |-> e + 1]
                                   ELSE IF s[e] = "," THEN ParseMembers(s, e + 1, got)
                                   ELSE NoParse

\* the elements of an array from i on, up to and including "]"
RECURSIVE ParseElements(_, _, _)
ParseElements(s, i, acc) ==
    LET val == ParseScalar(s, SkipWs(s, i))
    IN  IF ~val.ok THEN NoParse
        ELSE LET e == SkipWs(s, val.next)
             IN  IF e > Len(s) THEN NoParse
                 ELSE IF s[e] = "]"
                 THEN [ok |-> TRUE, v |-> JArr(Append(acc, val.v)), next |-> e + 1]
                 ELSE IF s[e] = "," THEN ParseElements(s, e + 1, Append(acc, val.v))
                 ELSE NoParse

ParseValue(s, i) ==
    IF i > Len(s) THEN NoParse
    ELSE IF s[i] = "{"
    THEN IF SkipWs(s, i + 1) <= Len(s) /\ s[SkipWs(s, i + 1)] = "}"
         THEN [ok |-> TRUE, v |-> JObj(<<>>), next |-> SkipWs(s, i + 1) + 1]
         ELSE ParseMembers(s, i + 1, <<>>)
    ELSE IF s[i] = "["
    THEN IF SkipWs(s, i + 1) <= Len(s) /\ s[SkipWs(s, i + 1)] = "]"
         THEN [ok |-> TRUE, v |-> JArr(<<>>), next |-> SkipWs(s, i + 1) + 1]
         ELSE ParseElements(s, i + 1, <<>>)
    ELSE ParseScalar(s, i)

\* json.loads(s): [ok |-> TRUE, v |-> value], or NoParse for JSONDecodeError
Loads(s) ==
    LET r == ParseValue(s, SkipWs(s, 1))
    IN  IF r.ok /\ SkipWs(s, r.next) = Len(s) + 1
        THEN [ok |-> TRUE, v |-> r.v] ELSE NoParse

-----------------------------------------------------------------------------
(* JsonChunker.chunk.  The locals of _process_dict and _process_list are a *)
(* record [chunks, current_chunk, current_size, uid].                      *)

\* dict.update: the keys of e are set in d
Update(d, e) ==
    [k \in (DOMAIN d) \union (DOMAIN e) |-> IF k \in DOMAIN e THEN e[k] ELSE d[k]]

\* mutant: the chunk's metadata is built without the base metadata
JsonAppendNoBase(st, base_metadata, text) ==
    [st EXCEPT
       !.chunks = Append(@, [content |-> text,
                             metadata |-> [chunk_id |-> Uuid4(st.uid),
                                           chunk_index |-> PyInt(Len(st.chunks))]]),
       !.uid = @ + 1]

\* metadata = base_metadata.copy(); metadata.update({chunk_id, chunk_index});
\* chunks.append({"content": text, "metadata": metadata})
JsonAppend(st, base_metadata, text) ==
    [st EXCEPT
       !.chunks = Append(@, [content |-> text,
                             metadata |-> Update(base_metadata,
                                                 [chunk_id |-> Uuid4(st.uid),
                                                  chunk_index |-> PyInt(Len(st.chunks))])]),
       !.uid = @ + 1]

\* mutant: after a flush the new chunk starts empty, without the key at hand
JsonDictStepDropsKey(st, pair, base_metadata, size) ==
    LET item_str == Dumps(JObj(<<pair>>))
        item_size == Len(item_str)
    IN  IF st.current_size + item_size <= size
        THEN [st EXCEPT !.current_chunk = DictSet(@, pair.k, pair.v),
                        !.current_size = @ + item_size]
        ELSE IF st.current_chunk # <<>>
        THEN [JsonAppend(st, base_metadata, Dumps(JObj(st.current_chunk)))
                EXCEPT !.current_chunk = <<>>, !.current_size = 0]
        ELSE JsonAppend(st, base_metadata, item_str)

\* body of "for key, value in json_dict.items()"
JsonDictStep(st, pair, base_metadata, size) ==
    LET item_str == Dumps(JObj(<<pair>>))
        item_size == Len(item_str)
    IN  IF st.current_size + item_size <= size
        THEN [st EXCEPT !.current_chunk = DictSet(@, pair.k, pair.v),
                        !.current_size = @ + item_size]
        ELSE IF st.current_chunk # <<>>
        THEN [JsonAppend(st, base_metadata, Dumps(JObj(st.current_chunk)))
                EXCEPT !.current_chunk = <<pair>>, !.current_size = item_size]
        ELSE JsonAppend(st, base_metadata, item_str)

RECURSIVE JsonDictLoop(_, _, _, _)
JsonDictLoop(st, pairs, base_metadata, size) ==
    IF pairs = <<>> THEN st
    ELSE JsonDictLoop(JsonDictStep(st, Head(pairs), base_metadata, size),
                      Tail(pairs), base_metadata, size)

\* JsonChunker._process_dict(json_dict, chunks, base_metadata, chunk_size)
ProcessDict(pairs, st, base_metadata, size) ==
    LET fin == JsonDictLoop(st, pairs, base_metadata, size)
    IN  IF fin.current_chunk # <<>>
        THEN JsonAppend(fin, base_metadata, Dumps(JObj(fin.current_chunk)))
        ELSE fin

\* mutant: the chunk started after a flush counts no size for its first item
JsonListStepForgetsSize(st, item, base_metadata, size) ==
    LET item_str == Dumps(item)
        item_size == Len(item_str)
    IN  IF st.current_size + item_size <= size
        THEN [st EXCEPT !.current_chunk = Append(@, item),
                        !.current_size = @ + item_size]
        ELSE IF st.current_chunk # <<>>
        THEN [JsonAppend(st, base_metadata, Dumps(JArr(st.current_chunk)))
                EXCEPT !.current_chunk = <<item>>, !.current_size = 0]
        ELSE JsonAppend(st, base_metadata, item_str)

\* body of "for item in json_list"
JsonListStep(st, item, base_metadata, size) ==
    LET item_str == Dumps(item)
        item_size == Len(item_str)
    IN  IF st.current_size + item_size <= size
        THEN [st EXCEPT !.current_chunk = Append(@, item),
                        !.current_size = @ + item_size]
        ELSE IF st.current_chunk # <<>>
        THEN [JsonAppend(st, base_metadata, Dumps(JArr(st.current_chunk)))
                EXCEPT !.current_chunk = <<item>>, !.current_size = item_size]
        ELSE JsonAppend(st, base_metadata, item_str)

RECURSIVE JsonListLoop(_, _, _, _)
JsonListLoop(st, items, base_metadata, size) ==
    IF items = <<>> THEN st
    ELSE JsonListLoop(JsonListStep(st, Head(items), base_metadata, size),
                      Tail(items), base_metadata, size)

\* JsonChunker._process_list(json_list, chunks, base_metadata, chunk_size)
ProcessList(items, st, base_metadata, size) ==
    LET fin == JsonListLoop(st, items, base_metadata, size)
    IN  IF fin.current_chunk # <<>>
        THEN JsonAppend(fin, base_metadata, Dumps(JArr(fin.current_chunk)))
        ELSE fin

JsonStart(n) ==
    [chunks |-> <<>>, current_chunk |-> <<>>, current_size |-> 0, uid |-> n]

\* mutant: the parse error is swallowed and nothing is chunked
JsonFallbackEmpty(text, size, overlap, n) ==
    [outcome |-> "returned", chunks |-> <<>>, uid |-> n]

\* the "except json.JSONDecodeError" branch
JsonFallback(text, size, overlap, n) == TextChunk(text, size, overlap, n)

\* JsonChunker.chunk(text, size, overlap) with n identifiers handed out
\* before: [outcome, chunks, uid]
JsonResult(fin) == [outcome |-> "returned", chunks |-> fin.chunks, uid |-> fin.uid]

\* "metadata = {"chunk_type": "json"}"
JsonMetadata == [chunk_type |-> ValidateMetadataValue(PyStr(TypeJson))]

\* the "try" branch, on the parsed value: a dict, a list or a primitive
JsonParsed(json_data, text, size, n) ==
    IF json_data.t = "obj"
    THEN ProcessDict(json_data.pairs, JsonStart(n), JsonMetadata, size)
    ELSE IF json_data.t = "arr"
    THEN ProcessList(json_data.items, JsonStart(n), JsonMetadata, size)
    ELSE [JsonStart(n) EXCEPT
            !.chunks = <<[content |-> text,
                          metadata |->
                            [chunk_type |-> ValidateMetadataValue(PyStr(TypeJson)),
                             chunk_id |-> Uuid4(n),
                             chunk_index |-> PyInt(0)]]>>,
            !.uid = n + 1]

JsonTry(loaded, text, size, overlap, n) ==
    IF ~loaded.ok THEN JsonFallback(text, size, overlap, n)
    ELSE JsonResult(JsonParsed(loaded.v, text, size, n))

JsonChunk(text, size, overlap, n) == JsonTry(Loads(text), text, size, overlap, n)

-----------------------------------------------------------------------------
(* HTMLChunker.chunk.  tree is what BeautifulSoup(content, 'html.parser')  *)
(* yields: [title, metas, nodes], with title = [present, text], metas a    *)
(* list of [name, content] and nodes the elements of the body in document  *)
(* order, each [tag, id, class, strings]: its tag, its id attribute ("" if *)
(* absent), its class attribute (a list, empty if absent) and the stripped *)
(* non-empty strings of its text.                                          *)

SectionTags == <<"div", "section", "article", "main", "header", "footer", "nav", "aside">>

\* soup.find_all(tag): the elements with that tag, in document order
FindAll(tree, tag) == LET IsTag(node) == node.tag = tag IN SelectSeq(tree.nodes, IsTag)

\* mutant: the elements of the listed tags in document order
CollectSectionsInDocumentOrder(tree, tags) ==
    LET Listed(node) == \E i \in 1..Len(tags) : tags[i] = node.tag
    IN  SelectSeq(tree.nodes, Listed)

\* "for tag in section_tags: sections.extend(soup.find_all(tag))"
RECURSIVE CollectSections(_, _)
CollectSections(tree, tags) ==
    IF tags = <<>> THEN <<>>
    ELSE FindAll(tree, Head(tags)) \o CollectSections(tree, Tail(tags))

\* element.get_text(separator=sep, strip=True)
GetText(strings, sep) == JoinWith(strings, sep)

\* the strings of soup.get_text(separator='\n', strip=True): the title's text,
\* then the strings of the nodes
RECURSIVE NodeStrings(_)
NodeStrings(nodes) ==
    IF nodes = <<>> THEN <<>> ELSE Head(nodes).strings \o NodeStrings(Tail(nodes))
AllStrings(tree) ==
    (IF tree.title.present /\ tree.title.text # <<>> THEN <<tree.title.text>> ELSE <<>>)
    \o NodeStrings(tree.nodes)

\* soup.title.string if soup.title else ""
TitleOf(tree) ==
    IF ~tree.title.present THEN PyStr(<<>>)
    ELSE IF tree.title.text = <<>> THEN PyNone
    ELSE PyStr(tree.title.text)

CapitalSet == {Capitals[i] : i \in 1..26}
LowerOf == [c \in CapitalSet |-> Letters[CHOOSE i \in 1..26 : Capitals[i] = c]]
LowerChar(c) == IF c \in CapitalSet THEN LowerOf[c] ELSE c
Lower(s) == [i \in 1..Len(s) |-> LowerChar(s[i])]
IsDigit(s) == s # <<>> /\ \A i \in 1..Len(s) : s[i] \in DigitSet
Count(s, c) == Cardinality({i \in 1..Len(s) : s[i] = c})
\* s.replace(c, '', 1)
DropFirst(s, c) ==
    IF Count(s, c) = 0 THEN s
    ELSE LET i == MinOf({j \in 1..Len(s) : s[j] = c})
         IN  SubSeq(s, 1, i - 1) \o SubSeq(s, i + 1, Len(s))

\* the value stored for a <meta> tag's content
MetaValue(text) ==
    IF Lower(text) = <<"t", "r", "u", "e">> THEN PyBool(TRUE)
    ELSE IF Lower(text) = <<"f", "a", "l", "s", "e">> THEN PyBool(FALSE)
    ELSE IF IsDigit(text) THEN PyInt(IntOf(text))
    ELSE IF IsDigit(DropFirst(text, ".")) /\ Count(text, ".") = 1 THEN PyFloat(text)
    ELSE ValidateMetadataValue(PyStr(text))

\* "for meta in soup.find_all('meta')"
RECURSIVE HtmlMetas(_, _)
HtmlMetas(metadata, metas) ==
    IF metas = <<>> THEN metadata
    ELSE LET meta == Head(metas)
         IN  HtmlMetas(IF meta.name # "" /\ meta.content # <<>>
                       THEN Update(metadata, meta.name :> MetaValue(meta.content))
                       ELSE metadata,
                       Tail(metas))

HtmlBaseMetadata(tree) ==
    HtmlMetas([chunk_type |-> ValidateMetadataValue(PyStr(TypeHtml)),
               title |-> ValidateMetadataValue(TitleOf(tree))], tree.metas)

\* the index a sub-chunk gets: len(chunks) + i, read after the i sub-chunks
\* before it were appended to chunks
SubChunkIndex(st, i) == Len(st.chunks) + i

\* "for i, sub_chunk in enumerate(sub_chunks)" of an oversized section;
\* st.text_ids records the identifiers of the TextChunker chunks read
RECURSIVE HtmlSubChunks(_, _, _, _, _)
HtmlSubChunks(st, section, sub_chunks, i, metadata) ==
    IF i >= Len(sub_chunks) THEN st
    ELSE LET sub_chunk == sub_chunks[i + 1]
             sub_chunk_metadata ==
               Update(metadata,
                      [chunk_id |-> Uuid4(st.uid),
                       chunk_index |-> PyInt(SubChunkIndex(st, i)),
                       section_id |-> ValidateMetadataValue(PyStr(section.id)),
                       section_class |->
                         ValidateMetadataValue(IF section.class = <<>> THEN PyStr(<<>>)
                                               ELSE PyList(section.class)),
                       sub_chunk |-> PyBool(TRUE),
                       original_chunk_type |->
                         ValidateMetadataValue(sub_chunk.metadata.chunk_type)])
         IN  HtmlSubChunks([st EXCEPT
                              !.chunks = Append(@, [content |-> sub_chunk.content,
                                                    metadata |-> sub_chunk_metadata]),
                              !.uid = @ + 1,
                              !.text_ids = @ \union {sub_chunk.metadata.chunk_id}],
                           section, sub_chunks, i + 1, metadata)

\* the "else" branch of a section: sub is what TextChunker.chunk gave
HtmlOversized(st, section, metadata, sub) ==
    IF sub.outcome # "returned"
    THEN [st EXCEPT !.raised = sub.outcome, !.uid = sub.uid]
    ELSE HtmlSubChunks([st EXCEPT !.uid = sub.uid], section, sub.chunks, 0, metadata)

\* body of "for section in sections"
HtmlSectionStep(st, section, metadata, size, overlap) ==
    LET section_text == GetText(section.strings, <<" ">>)
    IN  IF st.raised # "none" \/ section_text = <<>> THEN st
        ELSE IF Len(section_text) <= size
        THEN [st EXCEPT
                !.chunks = Append(@,
                    [content |-> section_text,
                     metadata |->
                       Update(metadata,
                              [chunk_id |-> Uuid4(st.uid),
                               chunk_index |-> PyInt(Len(st.chunks)),
                               section_id |-> ValidateMetadataValue(PyStr(section.id)),
                               section_class |->
                                 ValidateMetadataValue(
                                   IF section.class = <<>> THEN PyStr(<<>>)
                                   ELSE PyList(section.class))])]),
                !.uid = @ + 1]
        ELSE HtmlOversized(st, section, metadata,
                           TextChunk(section_text, size, overlap, st.uid))

RECURSIVE HtmlSections(_, _, _, _, _)
HtmlSections(st, sections, metadata, size, overlap) ==
    IF sections = <<>> THEN st
    ELSE HtmlSections(HtmlSectionStep(st, Head(sections), metadata, size, overlap),
                      Tail(sections), metadata, size, overlap)

\* "for i, text_chunk in enumerate(text_chunks)" of the whole-text fallback
RECURSIVE HtmlFallbackChunks(_, _, _, _)
HtmlFallbackChunks(st, text_chunks, i, metadata) ==
    IF i >= Len(text_chunks) THEN st
    ELSE LET text_chunk == text_chunks[i + 1]
             chunk_metadata ==
               Update(metadata,
                      [chunk_id |-> Uuid4(st.uid),
                       chunk_index |-> PyInt(i),
                       original_chunk_type |->
                         ValidateMetadataValue(text_chunk.metadata.chunk_type)])
         IN  HtmlFallbackChunks([st EXCEPT
                                   !.chunks = Append(@, [content |-> text_chunk.content,
                                                         metadata |-> chunk_metadata]),
                                   !.uid = @ + 1,
                                   !.text_ids = @ \union {text_chunk.metadata.chunk_id}],
                                text_chunks, i + 1, metadata)

\* the "else" branch of "if sections"
HtmlFallbackText(st, metadata, sub) ==
    IF sub.outcome # "returned"
    THEN [st EXCEPT !.raised = sub.outcome, !.uid = sub.uid]
    ELSE HtmlFallbackChunks([st EXCEPT !.uid = sub.uid], sub.chunks, 0, metadata)

HtmlFallback(st, tree, metadata, size, overlap) ==
    HtmlFallbackText(st, metadata,
                     TextChunk(GetText(AllStrings(tree), <<"\n">>), size, overlap, st.uid))

\* HTMLChunker.chunk on the parsed document, with n identifiers handed out
\* before: [outcome, chunks, uid, text_ids]
HtmlStart(n) == [chunks |-> <<>>, uid |-> n, raised |-> "none", text_ids |-> {}]

HtmlResult(fin) ==
    IF fin.raised = "none"
    THEN [outcome |-> "returned", chunks |-> fin.chunks, uid |-> fin.uid,
          text_ids |-> fin.text_ids]
    ELSE [outcome |-> fin.raised, chunks |-> <<>>, uid |-> fin.uid,
          text_ids |-> fin.text_ids]

\* "if sections: ... else: ..."
HtmlBody(tree, sections, metadata, size, overlap, n) ==
    IF sections # <<>>
    THEN HtmlSections(HtmlStart(n), sections, metadata, size, overlap)
    ELSE HtmlFallback(HtmlStart(n), tree, metadata, size, overlap)

HtmlChunk(tree, size, overlap, n) ==
    HtmlResult(HtmlBody(tree, CollectSections(tree, SectionTags),
                        HtmlBaseMetadata(tree), size, overlap, n))

-----------------------------------------------------------------------------
(* Regular expressions.  A pattern is a list of elements: the characters   *)
(* of a word, or a run (+: at least one, *: any number) of the characters  *)
(* of a class.  In every pattern of the program the character that follows *)
(* a run is outside the run's class, so the longest run is the only match. *)

\* \w and [\w\.]
WordChars ==
    {Letters[i] : i \in 1..26} \union {Capitals[i] : i \in 1..26}
      \union DigitSet \union {"_"}
DotWordChars == WordChars \union {"."}

Lit(word) == [kind |-> "lit", chars |-> word, set |-> {}]
Plus(class) == [kind |-> "plus", chars |-> <<>>, set |-> class]
Star(class) == [kind |-> "star", chars |-> <<>>, set |-> class]

\* the character compared under re.IGNORECASE (ic) or as it is
Fold(c, ic) == IF ic THEN LowerChar(c) ELSE c

\* first position from pos on whose character is outside class
RunStop(s, pos, class) ==
    MinOf({j \in pos..(Len(s) + 1) : j = Len(s) + 1 \/ s[j] \notin class})

LitAt(s, pos, word, ic) ==
    /\ pos + Len(word) - 1 <= Len(s)
    /\ \A i \in 1..Len(word) : Fold(s[pos + i - 1], ic) = Fold(word[i], ic)

\* the position after the match of pat that starts at pos, 0 without match
RECURSIVE MatchAt(_, _, _, _)
MatchAt(s, pos, pat, ic) ==
    IF pat = <<>> THEN pos
    ELSE IF Head(pat).kind = "lit"
    THEN IF LitAt(s, pos, Head(pat).chars, ic)
         THEN MatchAt(s, pos + Len(Head(pat).chars), Tail(pat), ic)
         ELSE 0
    ELSE IF Head(pat).kind = "plus" /\ RunStop(s, pos, Head(pat).set) = pos
    THEN 0
    ELSE MatchAt(s, RunStop(s, pos, Head(pat).set), Tail(pat), ic)

\* re.match(p1|p2|..., s)
Match(pats, s) == \E k \in 1..Len(pats) : MatchAt(s, 1, pats[k], FALSE) # 0
\* re.search(p1|p2|..., s, re.IGNORECASE)
Search(pats, s) ==
    \E pos \in 1..(Len(s) + 1) : \E k \in 1..Len(pats) :
       MatchAt(s, pos, pats[k], TRUE) # 0
-----------------------------------------------------------------------------
(* CodeChunker.chunk.  Its locals are a record [chunks, current_chunk,     *)
(* current_size, in_function, in_class, function_depth, imports, uid].     *)

\* the patterns of _detect_language, in the order of the dict
LanguagePatterns ==
    <<[language |-> <<"p", "y", "t", "h", "o", "n">>,
       pats |-> <<<<Lit(<<"i", "m", "p", "o", "r", "t">>), Plus(Whitespace), Plus(DotWordChars)>>,
                  <<Lit(<<"f", "r", "o", "m">>), Plus(Whitespace), Plus(DotWordChars), Plus(Whitespace), Lit(<<"i", "m", "p", "o", "r", "t">>)>>>>],
      [language |-> <<"j", "a", "v", "a", "s", "c", "r", "i", "p", "t">>,
       pats |-> <<<<Lit(<<"f", "u", "n", "c", "t", "i", "o", "n">>), Plus(Whitespace), Plus(WordChars), Star(Whitespace), Lit(<<"(">>)>>,
                  <<Lit(<<"c", "o", "n", "s", "t">>), Plus(Whitespace), Plus(WordChars), Star(Whitespace), Lit(<<"=">>)>>,
                  <<Lit(<<"l", "e", "t">>), Plus(Whitespace), Plus(WordChars), Star(Whitespace), Lit(<<"=">>)>>,
                  <<Lit(<<"v", "a", "r">>), Plus(Whitespace), Plus(WordChars), Star(Whitespace), Lit(<<"=">>)>>>>],
      [language |-> <<"j", "a", "v", "a">>,
       pats |-> <<<<Lit(<<"p", "u", "b", "l", "i", "c">>), Plus(Whitespace), Lit(<<"c", "l", "a", "s", "s">>)>>,
                  <<Lit(<<"p", "r", "i", "v", "a", "t", "e">>), Plus(Whitespace), Lit(<<"c", "l", "a", "s", "s">>)>>,
                  <<Lit(<<"p", "r", "o", "t", "e", "c", "t", "e", "d">>), Plus(Whitespace), Lit(<<"c", "l", "a", "s", "s">>)>>>>],
      [language |-> <<"c", "/", "c", "+", "+">>,
       pats |-> <<<<Lit(<<"#", "i", "n", "c", "l", "u", "d", "e">>), Star(Whitespace), Lit(<<"<">>)>>,
                  <<Lit(<<"#", "i", "n", "c", "l", "u", "d", "e">>), Star(Whitespace), Lit(<<"\"">>)>>>>],
      [language |-> <<"j", "a", "v", "a">>,
       pats |-> <<<<Lit(<<"p", "a", "c", "k", "a", "g", "e">>), Plus(Whitespace), Plus(DotWordChars), Lit(<<";">>)>>>>],
      [language |-> <<"c", "#">>,
       pats |-> <<<<Lit(<<"u", "s", "i", "n", "g">>), Plus(Whitespace), Plus(DotWordChars), Lit(<<";">>)>>>>],
      [language |-> <<"h", "t", "m", "l">>,
       pats |-> <<<<Lit(<<"<", "!", "D", "O", "C", "T", "Y", "P", "E">>), Plus(Whitespace), Lit(<<"h", "t", "m", "l">>)>>,
                  <<Lit(<<"<", "h", "t", "m", "l">>)>>>>],
      [language |-> <<"p", "h", "p">>,
       pats |-> <<<<Lit(<<"<", "?", "p", "h", "p">>)>>>>]>>
LanguageUnknown == <<"u", "n", "k", "n", "o", "w", "n">>

\* CodeChunker._detect_language
DetectLanguage(text) ==
    IF \E k \in 1..Len(LanguagePatterns) : Search(LanguagePatterns[k].pats, text)
    THEN LanguagePatterns[MinOf({k \in 1..Len(LanguagePatterns) :
                                   Search(LanguagePatterns[k].pats, text)})].language
    ELSE LanguageUnknown

\* r'\s*(import|from|#include|using)\s+'
ImportPatterns ==
    <<<<Star(Whitespace), Lit(<<"i", "m", "p", "o", "r", "t">>), Plus(Whitespace)>>,
      <<Star(Whitespace), Lit(<<"f", "r", "o", "m">>), Plus(Whitespace)>>,
      <<Star(Whitespace), Lit(<<"#", "i", "n", "c", "l", "u", "d", "e">>), Plus(Whitespace)>>,
      <<Star(Whitespace), Lit(<<"u", "s", "i", "n", "g">>), Plus(Whitespace)>>>>
\* r'\s*(def|function|public|private|protected)\s+[\w]+\s*\('
FunctionPatterns ==
    <<<<Star(Whitespace), Lit(<<"d", "e", "f">>), Plus(Whitespace), Plus(WordChars), Star(Whitespace), Lit(<<"(">>)>>,
      <<Star(Whitespace), Lit(<<"f", "u", "n", "c", "t", "i", "o", "n">>), Plus(Whitespace), Plus(WordChars), Star(Whitespace), Lit(<<"(">>)>>,
      <<Star(Whitespace), Lit(<<"p", "u", "b", "l", "i", "c">>), Plus(Whitespace), Plus(WordChars), Star(Whitespace), Lit(<<"(">>)>>,
      <<Star(Whitespace), Lit(<<"p", "r", "i", "v", "a", "t", "e">>), Plus(Whitespace), Plus(WordChars), Star(Whitespace), Lit(<<"(">>)>>,
      <<Star(Whitespace), Lit(<<"p", "r", "o", "t", "e", "c", "t", "e", "d">>), Plus(Whitespace), Plus(WordChars), Star(Whitespace), Lit(<<"(">>)>>>>
\* r'\s*(class)\s+[\w]+'
ClassPatterns ==
    <<<<Star(Whitespace), Lit(<<"c", "l", "a", "s", "s">>), Plus(Whitespace), Plus(WordChars)>>>>

\* content.split('\n')
RECURSIVE SplitLines(_)
SplitLines(s) ==
    IF \A i \in 1..Len(s) : s[i] # "\n" THEN <<s>>
    ELSE <<SubSeq(s, 1, MinOf({i \in 1..Len(s) : s[i] = "\n"}) - 1)>>
         \o SplitLines(SubSeq(s, MinOf({i \in 1..Len(s) : s[i] = "\n"}) + 1, Len(s)))

CodeStart(n) ==
    [chunks |-> <<>>, current_chunk |-> <<>>, current_size |-> 0,
     in_function |-> FALSE, in_class |-> FALSE, function_depth |-> 0,
     imports |-> <<>>, uid |-> n]

\* mutant: chunk_index is drawn from a counter the invocations share
CodeAppendIndexFromUid(st, language) ==
    [st EXCEPT
       !.chunks = Append(@,
           [content |-> JoinWith(st.imports \o st.current_chunk, <<"\n">>),
            metadata |-> [chunk_type |-> ValidateMetadataValue(PyStr(TypeCode)),
                          language |-> ValidateMetadataValue(PyStr(language)),
                          chunk_id |-> Uuid4(st.uid),
                          chunk_index |-> PyInt(st.uid)]]),
       !.uid = @ + 1,
       !.current_chunk = <<>>,
       !.current_size = 0]

\* "chunks.append({...}); current_chunk = []; current_size = 0"
CodeAppend(st, language) ==
    [st EXCEPT
       !.chunks = Append(@,
           [content |-> JoinWith(st.imports \o st.current_chunk, <<"\n">>),
            metadata |-> [chunk_type |-> ValidateMetadataValue(PyStr(TypeCode)),
                          language |-> ValidateMetadataValue(PyStr(language)),
                          chunk_id |-> Uuid4(st.uid),
                          chunk_index |-> PyInt(Len(st.chunks))]]),
       !.uid = @ + 1,
       !.current_chunk = <<>>,
       !.current_size = 0]

\* "if starts_function: ... elif starts_class: ...; function_depth += opens"
CodeTrack(st, line) ==
    [st EXCEPT
       !.in_function = @ \/ Match(FunctionPatterns, line),
       !.in_class = @ \/ (~Match(FunctionPatterns, line) /\ Match(ClassPatterns, line)),
       !.function_depth =
          @ + (IF Match(FunctionPatterns, line) \/ Match(ClassPatterns, line)
               THEN 1 ELSE 0)
            + Count(line, "{") - Count(line, "}")]

\* mutant: a block closes only where the depth is not positive
CodeBlockEndIgnoresLast(st, last, language) ==
    IF (st.in_function \/ st.in_class) /\ st.function_depth <= 0
    THEN IF st.current_chunk # <<>>
         THEN [CodeAppend(st, language) EXCEPT
                 !.in_function = FALSE, !.in_class = FALSE, !.function_depth = 0]
         ELSE [st EXCEPT
                 !.in_function = FALSE, !.in_class = FALSE, !.function_depth = 0]
    ELSE st

\* "if in_function or in_class: if function_depth <= 0 or i == len(lines) - 1"
CodeBlockEnd(st, last, language) ==
    IF (st.in_function \/ st.in_class) /\ (st.function_depth <= 0 \/ last)
    THEN IF st.current_chunk # <<>>
         THEN [CodeAppend(st, language) EXCEPT
                 !.in_function = FALSE, !.in_class = FALSE, !.function_depth = 0]
         ELSE [st EXCEPT
                 !.in_function = FALSE, !.in_class = FALSE, !.function_depth = 0]
    ELSE st

\* "current_chunk.append(line); current_size += len(line) + 1"
CodeAddLine(st, line) ==
    [st EXCEPT !.current_chunk = Append(@, line),
               !.current_size = @ + Len(line) + 1]

\* mutant: the size flush does not look at in_function and in_class
CodeSizeFlushInBlock(st, size, language) ==
    IF st.current_size > size THEN CodeAppend(st, language) ELSE st

\* "if current_size > chunk_size and not (in_function or in_class)"
CodeSizeFlush(st, size, language) ==
    IF st.current_size > size /\ ~(st.in_function \/ st.in_class)
    THEN CodeAppend(st, language)
    ELSE st

\* body of "for i, line in enumerate(lines)"
CodeLineStep(st, line, last, size, language) ==
    IF Match(ImportPatterns, line)
    THEN [st EXCEPT !.imports = Append(@, line)]
    ELSE CodeSizeFlush(
           CodeAddLine(CodeBlockEnd(CodeTrack(st, line), last, language), line),
           size, language)

RECURSIVE CodeLines(_, _, _, _, _)
CodeLines(st, lines, i, size, language) ==
    IF i >= Len(lines) THEN st
    ELSE CodeLines(CodeLineStep(st, lines[i + 1], i = Len(lines) - 1, size, language),
                   lines, i + 1, size, language)

\* the locals after the first k passes of "for i, line in enumerate(lines)",
\* and in the k-th pass right after "current_chunk.append(line);
\* current_size += len(line) + 1"
RECURSIVE CodeAfter(_, _, _)
CodeAfter(text, k, size) ==
    IF k = 0 THEN CodeStart(0)
    ELSE CodeLineStep(CodeAfter(text, k - 1, size), SplitLines(text)[k],
                      k = Len(SplitLines(text)), size, DetectLanguage(text))
CodeAppended(text, k, size) ==
    CodeAddLine(CodeBlockEnd(CodeTrack(CodeAfter(text, k - 1, size), SplitLines(text)[k]),
                             k = Len(SplitLines(text)), DetectLanguage(text)),
                SplitLines(text)[k])

\* the final "if current_chunk"
CodeFinish(st, language) ==
    IF st.current_chunk # <<>> THEN CodeAppend(st, language) ELSE st

CodeResult(fin) == [outcome |-> "returned", chunks |-> fin.chunks, uid |-> fin.uid]

CodeBody(text, language, size, n) ==
    CodeFinish(CodeLines(CodeStart(n), SplitLines(text), 0, size, language), language)

\* mutant: the size flush leaves room for the overlap
CodeChunkUsesOverlap(text, size, overlap, n) ==
    CodeResult(CodeBody(text, DetectLanguage(text), size - overlap, n))

\* CodeChunker.chunk(text, size, overlap) with n identifiers handed out
\* before: [outcome, chunks, uid]
CodeChunk(text, size, overlap, n) ==
    CodeResult(CodeBody(text, DetectLanguage(text), size, n))

-----------------------------------------------------------------------------
(* SmartChunker: detect_content_type and chunk.  An argument content_type  *)
(* is None or a str.                                                       *)

\* r'<!DOCTYPE\s+html|<html|<body|<div|<p>|<head>'
HtmlMarkers ==
    <<<<Lit(<<"<", "!", "D", "O", "C", "T", "Y", "P", "E">>), Plus(Whitespace), Lit(<<"h", "t", "m", "l">>)>>,
      <<Lit(<<"<", "h", "t", "m", "l">>)>>,
      <<Lit(<<"<", "b", "o", "d", "y">>)>>,
      <<Lit(<<"<", "d", "i", "v">>)>>,
      <<Lit(<<"<", "p", ">">>)>>,
      <<Lit(<<"<", "h", "e", "a", "d", ">">>)>>>>
\* code_patterns
CodeSignatures ==
    <<<<Lit(<<"i", "m", "p", "o", "r", "t">>), Plus(Whitespace), Plus(DotWordChars)>>,
      <<Lit(<<"f", "r", "o", "m">>), Plus(Whitespace), Plus(DotWordChars), Plus(Whitespace), Lit(<<"i", "m", "p", "o", "r", "t">>)>>,
      <<Lit(<<"f", "u", "n", "c", "t", "i", "o", "n">>), Plus(Whitespace), Plus(WordChars), Star(Whitespace), Lit(<<"(">>)>>,
      <<Lit(<<"c", "o", "n", "s", "t">>), Plus(Whitespace), Plus(WordChars), Star(Whitespace), Lit(<<"=">>)>>,
      <<Lit(<<"l", "e", "t">>), Plus(Whitespace), Plus(WordChars), Star(Whitespace), Lit(<<"=">>)>>,
      <<Lit(<<"p", "u", "b", "l", "i", "c">>), Plus(Whitespace), Lit(<<"c", "l", "a", "s", "s">>)>>,
      <<Lit(<<"p", "r", "i", "v", "a", "t", "e">>), Plus(Whitespace), Lit(<<"c", "l", "a", "s", "s">>)>>,
      <<Lit(<<"p", "r", "o", "t", "e", "c", "t", "e", "d">>), Plus(Whitespace), Lit(<<"c", "l", "a", "s", "s">>)>>,
      <<Lit(<<"#", "i", "n", "c", "l", "u", "d", "e">>), Star(Whitespace), Lit(<<"<">>)>>,
      <<Lit(<<"#", "i", "n", "c", "l", "u", "d", "e">>), Star(Whitespace), Lit(<<"\"">>)>>,
      <<Lit(<<"p", "a", "c", "k", "a", "g", "e">>), Plus(Whitespace), Plus(DotWordChars), Lit(<<";">>)>>,
      <<Lit(<<"u", "s", "i", "n", "g">>), Plus(Whitespace), Plus(DotWordChars), Lit(<<";">>)>>,
      <<Lit(<<"<", "?", "p", "h", "p">>)>>>>

\* "(trimmed.startswith('{') and trimmed.endswith('}')) or
\*  (trimmed.startswith('[') and trimmed.endswith(']'))"
Bracketed(trimmed) ==
    /\ trimmed # <<>>
    /\ \/ trimmed[1] = "{" /\ trimmed[Len(trimmed)] = "}"
       \/ trimmed[1] = "[" /\ trimmed[Len(trimmed)] = "]"

\* mutant: the JSON check comes first
DetectContentTypeJsonFirst(text) ==
    IF Bracketed(Strip(text)) /\ Loads(Strip(text)).ok THEN TypeJson
    ELSE IF Search(HtmlMarkers, text) THEN TypeHtml
    ELSE IF Search(CodeSignatures, text) THEN TypeCode
    ELSE TypeText

\* SmartChunker.detect_content_type
DetectContentType(text) ==
    IF Search(HtmlMarkers, text) THEN TypeHtml
    ELSE IF Bracketed(Strip(text)) /\ Loads(Strip(text)).ok THEN TypeJson
    ELSE IF Search(CodeSignatures, text) THEN TypeCode
    ELSE TypeText

\* "if not content_type: content_type = self.detect_content_type(content)"
SmartSelect(type, text) ==
    IF type = PyNone \/ type = PyStr(<<>>) THEN DetectContentType(text) ELSE type.str

\* "if content_type == "html": ... else: chunker = TextChunker()" and the
\* call of the chunker; tree is what BeautifulSoup parses text into
SmartDispatch(selected, text, tree, size, overlap, n) ==
    IF selected = TypeHtml THEN HtmlChunk(tree, size, overlap, n)
    ELSE IF selected = TypeCode THEN CodeChunk(text, size, overlap, n)
    ELSE IF selected = TypeJson THEN JsonChunk(text, size, overlap, n)
    ELSE TextChunk(text, size, overlap, n)

\* SmartChunker.chunk(text, type, size, overlap) with n identifiers handed
\* out before: [outcome, chunks, uid] and, from HTMLChunker, text_ids
SmartChunk(text, tree, type, size, overlap, n) ==
    SmartDispatch(SmartSelect(type, text), text, tree, size, overlap, n)

-----------------------------------------------------------------------------
(* Inputs *)

Strings(n) == UNION {[1..k -> Alphabet] : k \in 0..n}
\* the texts: every short string, and the long ones of letters and newlines
Texts == Strings(MaxPlainLen) \union UNION {[1..k -> {"a", "\n"}] : k \in 0..MaxLen}
TextSizes == 0..MaxSize
Overlaps == 0..MaxOverlap

\* sequences without repetition of at most n elements of S
SeqsNoRep(S, n) ==
    UNION {{q \in [1..k -> S] : \A i, j \in 1..k : i # j => q[i] # q[j]} : k \in 0..n}
SeqsUpTo(S, n) == UNION {[1..k -> S] : k \in 0..n}

KeyNames == <<"a", "b", "c", "d", "e">>
JsonKeys == {<<KeyNames[i]>> : i \in 1..MaxItems}
JsonScalars == {JInt(1), JStr(<<"x">>), JStr(<<"x", "x", "x", "x">>)}
JsonObjects ==
    UNION {{JObj([i \in 1..Len(ks) |-> [k |-> ks[i], v |-> vs[i]]]) :
              vs \in [1..Len(ks) -> JsonScalars]} : ks \in SeqsNoRep(JsonKeys, MaxItems)}
JsonArrays == {JArr(q) : q \in SeqsUpTo(JsonScalars, MaxItems)}
JsonValues == JsonObjects \union JsonArrays \union JsonScalars
JsonTexts == {Dumps(v) : v \in JsonValues}
JsonSizes == {JsonSizeStep * k : k \in 0..MaxJsonSteps}
\* _process_dict and _process_list are not given chunk_overlap
JsonOverlaps == {0, MaxOverlap}

\* the markup of the documents: names and tags spelled out
Spell ==
    [div |-> <<"d", "i", "v">>,
     section |-> <<"s", "e", "c", "t", "i", "o", "n">>,
     p |-> <<"p">>,
     author |-> <<"a", "u", "t", "h", "o", "r">>,
     chunk_type |-> <<"c", "h", "u", "n", "k", "_", "t", "y", "p", "e">>,
     title |-> <<"t", "i", "t", "l", "e">>,
     chunk_index |-> <<"c", "h", "u", "n", "k", "_", "i", "n", "d", "e", "x">>,
     section_id |-> <<"s", "e", "c", "t", "i", "o", "n", "_", "i", "d">>,
     parent_document_id |-> <<"p", "a", "r", "e", "n", "t", "_", "d", "o", "c", "u",
                              "m", "e", "n", "t", "_", "i", "d">>]
Attr(name, value) == <<" ">> \o name \o <<"=", "\"">> \o value \o <<"\"">>
RenderNode(node) ==
    <<"<">> \o Spell[node.tag]
    \o (IF node.id # <<>> THEN Attr(<<"i", "d">>, node.id) ELSE <<>>)
    \o (IF node.class # <<>>
        THEN Attr(<<"c", "l", "a", "s", "s">>, JoinWith(node.class, <<" ">>)) ELSE <<>>)
    \o <<">">> \o JoinWith(node.strings, <<"<", "b", "r", ">">>)
    \o <<"<", "/">> \o Spell[node.tag] \o <<">">>
RenderMeta(meta) ==
    <<"<", "m", "e", "t", "a">> \o Attr(<<"n", "a", "m", "e">>, Spell[meta.name])
    \o Attr(<<"c", "o", "n", "t", "e", "n", "t">>, meta.content) \o <<">">>
Render(doc) ==
    (IF doc.title.present
     THEN <<"<", "t", "i", "t", "l", "e", ">">> \o doc.title.text
          \o <<"<", "/", "t", "i", "t", "l", "e", ">">>
     ELSE <<>>)
    \o JoinWith([i \in 1..Len(doc.metas) |-> RenderMeta(doc.metas[i])], <<>>)
    \o JoinWith([i \in 1..Len(doc.nodes) |-> RenderNode(doc.nodes[i])], <<>>)

DocHeads ==
    {[title |-> [present |-> FALSE, text |-> <<>>], metas |-> <<>>],
     [title |-> [present |-> TRUE, text |-> <<"T">>],
      metas |-> <<[name |-> "author", content |-> <<"x">>]>>],
     [title |-> [present |-> TRUE, text |-> <<>>],
      metas |-> <<[name |-> "author", content |-> <<"7">>],
                  [name |-> "chunk_type", content |-> <<"T", "r", "u", "e">>],
                  [name |-> "chunk_index", content |-> <<"7">>]>>],
     [title |-> [present |-> TRUE, text |-> <<"T">>],
      metas |-> <<[name |-> "title", content |-> <<"x">>],
                  [name |-> "section_id", content |-> <<"x">>]>>]}
DocTags == {"div", "section", "p"}
DocAttrs == {[id |-> <<>>, class |-> <<>>],
             [id |-> <<"s">>, class |-> <<<<"c">>, <<"d">>>>]}
DocStrings == {<<>>, <<<<"a">>>>, <<<<"a">>, <<"a">>>>, <<<<"a", ".">>, <<"a">>>>}
DocNodes ==
    {[tag |-> t, id |-> a.id, class |-> a.class, strings |-> q] :
       t \in DocTags, a \in DocAttrs, q \in DocStrings}
HtmlDocs ==
    {[title |-> h.title, metas |-> h.metas, nodes |-> ns] :
       h \in DocHeads, ns \in SeqsUpTo(DocNodes, MaxNodes)}

\* the lines of the source files
SourceLines ==
    {<<"i", "m", "p", "o", "r", "t", " ", "a">>, <<"d", "e", "f", " ", "f", "(", ")", ":">>, <<"c", "l", "a", "s", "s", " ", "A">>, <<"}">>,
     <<"x">>, <<"f", "(", ")", " ", "{">>, <<"u", "s", "i", "n", "g", " ", "b", ";">>}
\* documents of three lines with a block: closed by a brace before the last
\* line, open until the last line, holding an import line, ending in one
BlockTexts ==
    {JoinWith(ls, <<"\n">>) :
       ls \in {<<<<"d", "e", "f", " ", "f", "(", ")", ":">>, <<"}">>, <<"x">>>>,
               <<<<"d", "e", "f", " ", "f", "(", ")", ":">>, <<"x">>, <<"x">>>>,
               <<<<"c", "l", "a", "s", "s", " ", "A">>, <<"i", "m", "p", "o", "r", "t", " ", "a">>, <<"}">>>>,
               <<<<"c", "l", "a", "s", "s", " ", "A">>, <<"x">>, <<"i", "m", "p", "o", "r", "t", " ", "a">>>>,
               <<<<"}">>, <<"d", "e", "f", " ", "f", "(", ")", ":">>, <<"x">>>>}}
CodeTexts ==
    {JoinWith(ls, <<"\n">>) : ls \in SeqsUpTo(SourceLines, MaxLines) \ {<<>>}}
      \union BlockTexts
CodeSizes == JsonSizes

\* the tree of a content without markup: its stripped text, if any
PlainSoup(text) ==
    [title |-> [present |-> FALSE, text |-> <<>>], metas |-> <<>>,
     nodes |-> IF Strip(text) = <<>> THEN <<>>
               ELSE <<[tag |-> "", id |-> <<>>, class |-> <<>>,
                       strings |-> <<Strip(text)>>]>>]

\* the contents given to SmartChunker, each with the tree it parses into
SmartJson ==
    {v \in JsonValues :
       /\ v.t = "obj" => Len(v.pairs) <= MaxSmart
       /\ v.t = "arr" => Len(v.items) <= MaxSmart}
\* '["<p>"]' is JSON and holds an HTML marker; '[a]' is bracketed, not JSON
MarkerInJson ==
    [content |-> <<"[", "\"", "<", "p", ">", "\"", "]">>,
     soup |-> [title |-> [present |-> FALSE, text |-> <<>>], metas |-> <<>>,
               nodes |-> <<[tag |-> "", id |-> <<>>, class |-> <<>>,
                            strings |-> <<<<"[", "\"">>>>],
                           [tag |-> "p", id |-> <<>>, class |-> <<>>,
                            strings |-> <<<<"\"", "]">>>>]>>]]
BracketedText == <<"[", "a", "]">>
\* '["import a"]' is JSON and holds a code signature; '<div>import a</div>'
\* holds an HTML marker and a code signature
ImportLine == <<"i", "m", "p", "o", "r", "t", " ", "a">>
SignatureInJson == Dumps(JArr(<<JStr(ImportLine)>>))
SignatureInMarkup ==
    [content |-> <<"<", "d", "i", "v", ">">> \o ImportLine \o <<"<", "/", "d", "i", "v", ">">>,
     soup |-> [title |-> [present |-> FALSE, text |-> <<>>], metas |-> <<>>,
               nodes |-> <<[tag |-> "div", id |-> <<>>, class |-> <<>>,
                            strings |-> <<ImportLine>>]>>]]
SmartInputs ==
    {[content |-> Render(doc), soup |-> doc] :
       doc \in {d \in HtmlDocs : Len(d.nodes) <= 1}}
    \union {[content |-> text, soup |-> PlainSoup(text)] :
              text \in {Dumps(v) : v \in SmartJson}
                       \union {t \in CodeTexts : Len(SplitLines(t)) <= MaxSmart}
                       \union Strings(MaxSmart + 1)
                       \union {BracketedText, SignatureInJson}}
    \union {MarkerInJson, SignatureInMarkup}
ContentTypes ==
    {PyNone, PyStr(<<>>), PyStr(TypeHtml), PyStr(TypeCode), PyStr(TypeJson),
     PyStr(TypeText), PyStr(<<"x">>)}

-----------------------------------------------------------------------------
(* The calls *)

InitText ==
    /\ chunker = "TextChunker"
    /\ content \in Texts
    /\ soup = PlainSoup(content)
    /\ chunk_size \in TextSizes
    /\ chunk_overlap \in Overlaps
    /\ content_type = PyNone

InitJson ==
    /\ chunker = "JsonChunker"
    /\ \/ /\ content \in JsonTexts
          /\ chunk_size \in JsonSizes
          /\ chunk_overlap \in JsonOverlaps
       \/ /\ content \in Strings(MaxPlainLen)
          /\ chunk_size \in TextSizes
          /\ chunk_overlap \in Overlaps
    /\ soup = PlainSoup(content)
    /\ content_type = PyNone

InitHtml ==
    /\ chunker = "HTMLChunker"
    /\ soup \in HtmlDocs
    /\ content = Render(soup)
    /\ chunk_size \in TextSizes
    /\ chunk_overlap \in Overlaps
    /\ content_type = PyNone

InitCode ==
    /\ chunker = "CodeChunker"
    /\ content \in CodeTexts
    /\ soup = PlainSoup(content)
    /\ chunk_size \in CodeSizes
    /\ chunk_overlap \in Overlaps
    /\ content_type = PyNone

InitSmart ==
    /\ chunker = "SmartChunker"
    /\ \E input \in SmartInputs : content = input.content /\ soup = input.soup
    /\ content_type \in ContentTypes
    /\ chunk_size \in TextSizes
    /\ chunk_overlap \in JsonOverlaps

InitDetect ==
    /\ chunker = "detect_content_type"
    /\ \E input \in SmartInputs : content = input.content /\ soup = input.soup
    /\ content_type = PyNone
    /\ chunk_size = 0
    /\ chunk_overlap = 0

\* no storage request is being served
NoRequest == [op |-> "none", served |-> 0]

Init ==
    /\ InitText \/ InitJson \/ InitHtml \/ InitCode \/ InitSmart \/ InitDetect
    /\ pc = "ready"
    /\ outcome = "none"
    /\ chunks = <<>>
    /\ uid = 0
    /\ text_ids = {}
    /\ detected = PyNone
    /\ calls = <<>>
    /\ collection = {}
    /\ request = NoRequest

Return(r) ==
    /\ pc' = "done"
    /\ outcome' = r.outcome
    /\ chunks' = r.chunks
    /\ uid' = r.uid
    /\ text_ids' = IF "text_ids" \in DOMAIN r THEN r.text_ids ELSE {}
    /\ UNCHANGED <<chunker, content, soup, chunk_size, chunk_overlap, content_type,
                   detected, calls, collection, request>>

ChunkText ==
    /\ pc = "ready"
    /\ chunker = "TextChunker"
    /\ Return(TextChunk(content, chunk_size, chunk_overlap, uid))

ChunkJson ==
    /\ pc = "ready"
    /\ chunker = "JsonChunker"
    /\ Return(JsonChunk(content, chunk_size, chunk_overlap, uid))

ChunkHtml ==
    /\ pc = "ready"
    /\ chunker = "HTMLChunker"
    /\ Return(HtmlChunk(soup, chunk_size, chunk_overlap, uid))

ChunkCode ==
    /\ pc = "ready"
    /\ chunker = "CodeChunker"
    /\ Return(CodeChunk(content, chunk_size, chunk_overlap, uid))

ChunkSmart ==
    /\ pc = "ready"
    /\ chunker = "SmartChunker"
    /\ Return(SmartChunk(content, soup, content_type, chunk_size, chunk_overlap, uid))

\* a call of SmartChunker.detect_content_type(content)
Detect ==
    /\ pc = "ready"
    /\ chunker = "detect_content_type"
    /\ pc' = "done"
    /\ outcome' = "returned"
    /\ detected' = PyStr(DetectContentType(content))
    /\ UNCHANGED <<chunker, content, soup, chunk_size, chunk_overlap, chunks, uid,
                   text_ids, content_type, calls, collection, request>>

Next == ChunkText \/ ChunkJson \/ ChunkHtml \/ ChunkCode \/ ChunkSmart \/ Detect

Spec == Init /\ [][Next]_vars

-----------------------------------------------------------------------------
(* Several invocations on one SmartChunker.  The engine has no attribute    *)
(* and the module no variable besides the uuid source, so an invocation is  *)
(* its arguments and its locals; the invocations advance in any order, one  *)
(* step at a time: the choice of the splitter with the set-up of its        *)
(* locals, one iteration of the splitter's loop, the final flush with the   *)
(* return.  uuid.uuid4() draws from the one source uid.                     *)

\* the document <div>a</div><div>a</div>
TwoDivs ==
    [title |-> [present |-> FALSE, text |-> <<>>], metas |-> <<>>,
     nodes |-> <<[tag |-> "div", id |-> <<>>, class |-> <<>>, strings |-> <<<<"a">>>>],
                 [tag |-> "div", id |-> <<>>, class |-> <<>>, strings |-> <<<<"a">>>>]>>]
CallContents ==
    {[content |-> Render(TwoDivs), soup |-> TwoDivs]}
    \union {[content |-> text, soup |-> PlainSoup(text)] :
              text \in {<<"a", "\n", "\n", "a">>,
                        <<"x", "\n", "i", "m", "p", "o", "r", "t", " ", "a", "\n", "x">>,
                        Dumps(JArr(<<JInt(1), JInt(1)>>))}}
\* the arguments of the chunk calls and of the detect_content_type calls
ChunkCalls ==
    {[op |-> "chunk", content |-> c.content, soup |-> c.soup, content_type |-> PyNone,
      chunk_size |-> 1, chunk_overlap |-> 0] : c \in CallContents}
    \union {[op |-> "chunk", content |-> Render(TwoDivs), soup |-> TwoDivs,
              content_type |-> PyStr(TypeText), chunk_size |-> 1, chunk_overlap |-> 0]}
DetectCalls ==
    {[op |-> "detect", content |-> c.content, soup |-> c.soup, content_type |-> PyNone,
      chunk_size |-> 0, chunk_overlap |-> 0] :
       c \in {d \in CallContents : d.soup = TwoDivs \/ d.content[1] = "["}}

\* an invocation that has its arguments and has run nothing yet
Started(args) ==
    [args |-> args, at |-> "start", kind |-> "", st |-> <<>>, todo |-> <<>>,
     language |-> <<>>, metadata |-> <<>>, result |-> <<>>]

\* the locals as they are when the invocation draws from the uuid source
WithUid(st, n) == [st EXCEPT !.uid = n]

\* JsonChunker.chunk up to its loop: json.loads and the choice of the branch
SelectJson(inv, loaded, n) ==
    IF ~loaded.ok
    THEN [inv EXCEPT !.at = "loop", !.kind = "text", !.st = TextStart(n),
                     !.todo = SplitParagraphs(inv.args.content)]
    ELSE IF loaded.v.t = "obj"
    THEN [inv EXCEPT !.at = "loop", !.kind = "json_dict", !.st = JsonStart(n),
                     !.todo = loaded.v.pairs]
    ELSE IF loaded.v.t = "arr"
    THEN [inv EXCEPT !.at = "loop", !.kind = "json_list", !.st = JsonStart(n),
                     !.todo = loaded.v.items]
    ELSE [inv EXCEPT !.at = "loop", !.kind = "json_value", !.st = JsonStart(n)]

\* HTMLChunker.chunk up to its loop: the base metadata and the sections
SelectHtml(inv, sections, n) ==
    [inv EXCEPT !.at = "loop",
                !.kind = IF sections # <<>> THEN "html" ELSE "html_text",
                !.st = HtmlStart(n),
                !.metadata = HtmlBaseMetadata(inv.args.soup),
                !.todo = sections]

\* SmartChunker.chunk up to the loop of the splitter it picks
SelectSplitter(inv, selected, n) ==
    IF selected = TypeHtml
    THEN SelectHtml(inv, CollectSections(inv.args.soup, SectionTags), n)
    ELSE IF selected = TypeCode
    THEN [inv EXCEPT !.at = "loop", !.kind = "code", !.st = CodeStart(n),
                     !.language = DetectLanguage(inv.args.content),
                     !.todo = SplitLines(inv.args.content)]
    ELSE IF selected = TypeJson
    THEN SelectJson(inv, Loads(inv.args.content), n)
    ELSE [inv EXCEPT !.at = "loop", !.kind = "text", !.st = TextStart(n),
                     !.todo = SplitParagraphs(inv.args.content)]

\* one iteration of the loop the invocation is in, on the locals st
LoopStep(inv, st) ==
    IF inv.kind = "text"
    THEN TextParagraphStep(st, Head(inv.todo), inv.args.chunk_size, inv.args.chunk_overlap)
    ELSE IF inv.kind = "code"
    THEN CodeLineStep(st, Head(inv.todo), Len(inv.todo) = 1, inv.args.chunk_size,
                      inv.language)
    ELSE IF inv.kind = "json_dict"
    THEN JsonDictStep(st, Head(inv.todo), JsonMetadata, inv.args.chunk_size)
    ELSE IF inv.kind = "json_list"
    THEN JsonListStep(st, Head(inv.todo), JsonMetadata, inv.args.chunk_size)
    ELSE HtmlSectionStep(st, Head(inv.todo), inv.metadata, inv.args.chunk_size,
                         inv.args.chunk_overlap)

\* what follows the loop, up to the return: [outcome, chunks, uid]
LoopEnd(inv, st) ==
    IF inv.kind = "text" THEN TextResult(TextFinish(st))
    ELSE IF inv.kind = "code" THEN CodeResult(CodeFinish(st, inv.language))
    ELSE IF inv.kind = "json_dict"
    THEN JsonResult(ProcessDict(<<>>, st, JsonMetadata, inv.args.chunk_size))
    ELSE IF inv.kind = "json_list"
    THEN JsonResult(ProcessList(<<>>, st, JsonMetadata, inv.args.chunk_size))
    ELSE IF inv.kind = "json_value"
    THEN JsonResult(JsonParsed(Loads(inv.args.content).v, inv.args.content,
                               inv.args.chunk_size, st.uid))
    ELSE IF inv.kind = "html" THEN HtmlResult(st)
    ELSE HtmlResult(HtmlFallback(st, inv.args.soup, inv.metadata,
                                 inv.args.chunk_size, inv.args.chunk_overlap))

InitCalls ==
    /\ calls = <<>>
    /\ uid = 0
    /\ chunker = "SmartChunker"
    /\ content = <<>>
    /\ soup = PlainSoup(<<>>)
    /\ chunk_size = 0
    /\ chunk_overlap = 0
    /\ content_type = PyNone
    /\ pc = "serving"
    /\ outcome = "none"
    /\ chunks = <<>>
    /\ text_ids = {}
    /\ detected = PyNone
    /\ collection = {}
    /\ request = NoRequest

Engine == <<chunker, content, soup, chunk_size, chunk_overlap, pc, outcome, chunks,
            text_ids, content_type, detected, collection, request>>

\* a caller enters SmartChunker.chunk
StartChunk ==
    /\ pc = "serving"
    /\ Len(calls) < MaxCalls
    /\ \E args \in ChunkCalls : calls' = Append(calls, Started(args))
    /\ UNCHANGED <<uid, Engine>>

\* a caller enters SmartChunker.detect_content_type
StartDetect ==
    /\ pc = "serving"
    /\ Len(calls) < MaxCalls
    /\ \E args \in DetectCalls : calls' = Append(calls, Started(args))
    /\ UNCHANGED <<uid, Engine>>

\* detect_content_type runs and returns
ReturnDetected(i) ==
    /\ calls[i].args.op = "detect" /\ calls[i].at = "start"
    /\ calls' = [calls EXCEPT
                   ![i].at = "done",
                   ![i].result = [outcome |-> "returned",
                                  detected |-> PyStr(DetectContentType(calls[i].args.content))]]
    /\ UNCHANGED <<uid, Engine>>

\* "if not content_type: ..." and the splitter's code before its loop
Select(i) ==
    /\ calls[i].args.op = "chunk" /\ calls[i].at = "start"
    /\ calls' = [calls EXCEPT
                   ![i] = SelectSplitter(calls[i],
                                         SmartSelect(calls[i].args.content_type,
                                                     calls[i].args.content), uid)]
    /\ UNCHANGED <<uid, Engine>>

\* one iteration of the splitter's loop
Iterate(i) ==
    /\ calls[i].at = "loop" /\ calls[i].todo # <<>>
    /\ LET st == LoopStep(calls[i], WithUid(calls[i].st, uid))
       IN  /\ calls' = [calls EXCEPT ![i].st = st, ![i].todo = Tail(@)]
           /\ uid' = st.uid
    /\ UNCHANGED Engine

\* the code after the loop and the return
Finish(i) ==
    /\ calls[i].at = "loop" /\ calls[i].todo = <<>>
    /\ LET r == LoopEnd(calls[i], WithUid(calls[i].st, uid))
       IN  /\ calls' = [calls EXCEPT
                          ![i].at = "done",
                          ![i].result = [outcome |-> r.outcome, chunks |-> r.chunks]]
           /\ uid' = r.uid
    /\ UNCHANGED Engine

NextCalls ==
    \/ StartChunk
    \/ StartDetect
    \/ \E i \in 1..Len(calls) : ReturnDetected(i)
    \/ \E i \in 1..Len(calls) : Select(i)
    \/ \E i \in 1..Len(calls) : Iterate(i)
    \/ \E i \in 1..Len(calls) : Finish(i)

SpecCalls == InitCalls /\ [][NextCalls]_vars

-----------------------------------------------------------------------------
(* The add_documents endpoint: the documents of a request are chunked one  *)
(* after the other, and the chunks of all of them are upserted together.   *)

MaxRequests == 2

Idle(n) == [op |-> "none", served |-> n]

\* Document.verify_content_type
VerifyContentType(type, text) ==
    IF type # PyNone THEN type
    ELSE IF text # <<>> THEN PyStr(DetectContentType(text))
    ELSE PyStr(TypeText)

Document(id, input, metadata, type, size, overlap) ==
    [uid |-> id, content |-> input.content, soup |-> input.soup,
     metadata |-> metadata, content_type |-> VerifyContentType(type, input.content),
     chunk_size |-> size, chunk_overlap |-> overlap]

\* a page whose <meta> tags carry the names of the keys add_documents sets
TaggedPage ==
    [title |-> [present |-> FALSE, text |-> <<>>],
     metas |-> <<[name |-> "parent_document_id", content |-> <<"z">>],
                 [name |-> "author", content |-> <<"x">>]>>,
     nodes |-> <<[tag |-> "div", id |-> <<>>, class |-> <<>>,
                  strings |-> <<<<"a">>>>]>>]
\* document metadata that already has the keys add_documents sets
OwnMetadata ==
    [parent_document_id |-> PyStr(<<"o">>), chunk_id |-> PyStr(<<"o">>),
     source |-> PyStr(<<"s">>)]
UidA == <<"d", "1">>
UidB == <<"d", "2">>
Plain(text) == [content |-> text, soup |-> PlainSoup(text)]

IngestDocuments ==
    {Document(UidA, [content |-> Render(TaggedPage), soup |-> TaggedPage],
              <<>>, PyNone, 3, 0),
     Document(UidB, [content |-> Render(TaggedPage), soup |-> TaggedPage],
              OwnMetadata, PyStr(TypeHtml), 0, 0),
     Document(UidA, Plain(<<"a", "\n", "\n", "a">>), OwnMetadata, PyNone, 3, 1),
     Document(UidB, Plain(<<"a", "a">>), <<>>, PyStr(TypeText), 1, 1),
     Document(UidB, Plain(<<>>), OwnMetadata, PyNone, 3, 1),
     Document(UidA, Plain(<<"x", "\n", "x">>), <<>>, PyStr(TypeCode), 1, 0)}

IngestRequests ==
    {<<>>} \union {<<d>> : d \in IngestDocuments}
    \union {<<d, e>> : d, e \in {x \in IngestDocuments : x.metadata = <<>>}}

\* mutant: parent_document_id is set before the chunk's metadata is merged in
CombinedMetadataParentFirst(doc, chunk) ==
    Update(Update(doc.metadata, [parent_document_id |-> PyStr(doc.uid)]),
           chunk.metadata)

\* "combined_metadata = doc.metadata.copy()" and the two statements after it
CombinedMetadata(doc, chunk) ==
    Update(Update(doc.metadata, chunk.metadata),
           [parent_document_id |-> PyStr(doc.uid)])

\* the dictionary appended to all_chunks
StoredChunk(doc, chunk) ==
    [id |-> doc.uid \o <<"-">> \o chunk.metadata.chunk_id.str,
     content |-> chunk.content,
     metadata |-> CombinedMetadata(doc, chunk)]

\* collection.upsert: a record replaces the stored record of the same id
Upsert(stored, records) ==
    {r \in stored : \A k \in 1..Len(records) : records[k].id # r.id}
    \union {records[k] : k \in 1..Len(records)}

InitIngest ==
    /\ collection = {}
    /\ request = NoRequest
    /\ calls = <<>>
    /\ uid = 0
    /\ chunker = "SmartChunker"
    /\ content = <<>>
    /\ soup = PlainSoup(<<>>)
    /\ chunk_size = 0
    /\ chunk_overlap = 0
    /\ content_type = PyNone
    /\ pc = "serving"
    /\ outcome = "none"
    /\ chunks = <<>>
    /\ text_ids = {}
    /\ detected = PyNone

Chunking == <<chunker, content, soup, chunk_size, chunk_overlap, pc, outcome, chunks,
              text_ids, content_type, detected, calls>>

\* a request arrives: "all_chunks = []"
AddDocuments ==
    /\ request.op = "none"
    /\ request.served < MaxRequests
    /\ \E documents \in IngestRequests :
          request' = [op |-> "add_documents", served |-> request.served,
                      documents |-> documents, i |-> 0, all_chunks |-> <<>>,
                      status |-> 0]
    /\ UNCHANGED <<collection, uid, Chunking>>

\* one pass of "for doc in request.documents"
AddChunked ==
    /\ request.op = "add_documents" /\ request.status = 0
    /\ request.i < Len(request.documents)
    /\ LET doc == request.documents[request.i + 1]
           r == SmartChunk(doc.content, doc.soup, doc.content_type, doc.chunk_size,
                           doc.chunk_overlap, uid)
       IN  /\ uid' = r.uid
           /\ request' =
                IF r.outcome = "returned"
                THEN [request EXCEPT
                        !.i = @ + 1,
                        !.all_chunks = @ \o [k \in 1..Len(r.chunks) |->
                                               StoredChunk(doc, r.chunks[k])]]
                ELSE [request EXCEPT !.status = 500]
    /\ UNCHANGED <<collection, Chunking>>

\* "if all_chunks: collection.upsert(...)" and the return
AddUpserted ==
    /\ request.op = "add_documents" /\ request.status = 0
    /\ request.i = Len(request.documents)
    /\ collection' = IF request.all_chunks # <<>>
                     THEN Upsert(collection, request.all_chunks) ELSE collection
    /\ request' = [request EXCEPT !.status = 200]
    /\ UNCHANGED <<uid, Chunking>>

\* the response has been sent
AddAnswered ==
    /\ request.op = "add_documents" /\ request.status # 0
    /\ request' = Idle(request.served + 1)
    /\ UNCHANGED <<collection, uid, Chunking>>

NextIngest == AddDocuments \/ AddChunked \/ AddUpserted \/ AddAnswered

SpecIngest == InitIngest /\ [][NextIngest]_vars

-----------------------------------------------------------------------------
(* ChromaDBService.add_documents and update_documents: the caller supplies *)
(* the chunks, labelled as the add_documents endpoint labels them.         *)

MaxOperations == 2
\* "n_results=100"
NResults == 100
BatchSizes == {1, NResults + 1}

\* size chunks of the document doc_id, with identifiers uuid4 has not yet
\* handed out
Batch(doc_id, size, n) ==
    [k \in 1..size |->
       StoredChunk([uid |-> doc_id, metadata |-> <<>>],
                   [content |-> <<"a">>,
                    metadata |-> [chunk_id |-> Uuid4(n + k - 1)]])]
RECURSIVE Batches(_, _, _)
Batches(doc_ids, sizes, n) ==
    IF doc_ids = <<>> THEN <<>>
    ELSE Batch(Head(doc_ids), Head(sizes), n)
         \o Batches(Tail(doc_ids), Tail(sizes), n + Head(sizes))
Sum2(sizes) == IF Len(sizes) = 1 THEN sizes[1] ELSE sizes[1] + sizes[2]
AddCalls ==
    {[doc_ids |-> <<d>>, sizes |-> <<size>>] : d \in {UidA, UidB}, size \in BatchSizes}
UpdateCalls ==
    AddCalls \union {[doc_ids |-> <<UidA, UidB>>, sizes |-> <<1, 1>>]}

\* the ids of the stored records that match where={"parent_document_id": doc_id}
Matching(stored, doc_id) ==
    {record.id : record \in {r \in stored : r.metadata.parent_document_id = PyStr(doc_id)}}
RECURSIVE SubsetsOfSize(_, _)
SubsetsOfSize(S, k) ==
    IF k = 0 THEN {{}}
    ELSE UNION {{T \union {x} : T \in SubsetsOfSize(S \ {x}, k - 1)} : x \in S}
\* collection.query(..., n_results=100): at most 100 of the matching records
\* are returned, and which of them is the backend's choice
QueryResults(stored, doc_id) ==
    LET matches == Matching(stored, doc_id)
    IN  IF Cardinality(matches) <= NResults THEN {matches}
        ELSE {matches \ rest :
                rest \in SubsetsOfSize(matches, Cardinality(matches) - NResults)}
\* collection.delete(ids=...)
Delete(stored, ids) == {record \in stored : record.id \notin ids}
\* collection.add: records are stored under ids the collection does not have
Add(stored, records) ==
    stored \union {records[k] : k \in {j \in 1..Len(records) :
                                         \A r \in stored : r.id # records[j].id}}

InitService == InitIngest

\* ChromaDBService.add_documents
ServiceAdd ==
    /\ request.op = "none"
    /\ request.served < MaxOperations
    /\ \E call \in AddCalls :
          /\ collection' = Upsert(collection, Batches(call.doc_ids, call.sizes, uid))
          /\ uid' = uid + Sum2(call.sizes)
    /\ request' = Idle(request.served + 1)
    /\ UNCHANGED Chunking

\* ChromaDBService.update_documents is called
UpdateDocuments ==
    /\ request.op = "none"
    /\ request.served < MaxOperations
    /\ \E call \in UpdateCalls :
          /\ request' = [op |-> "update_documents", served |-> request.served,
                         doc_ids |-> call.doc_ids,
                         chunks |-> Batches(call.doc_ids, call.sizes, uid),
                         i |-> 0, printed |-> 0, status |-> 0]
          /\ uid' = uid + Sum2(call.sizes)
    /\ UNCHANGED <<collection, Chunking>>

Looking == request.op = "update_documents" /\ request.status = 0
                /\ request.i < Len(request.doc_ids)

\* one pass of "for doc_id in doc_ids" in which the query returns
UpdateDeleted ==
    /\ Looking
    /\ \E ids \in QueryResults(collection, request.doc_ids[request.i + 1]) :
          collection' = IF ids # {} THEN Delete(collection, ids) ELSE collection
    /\ request' = [request EXCEPT !.i = @ + 1]
    /\ UNCHANGED <<uid, Chunking>>

\* one pass in which the query raises: "except Exception as e: print(...)"
UpdateLookupFailed ==
    /\ Looking
    /\ request' = [request EXCEPT !.i = @ + 1, !.printed = @ + 1]
    /\ UNCHANGED <<collection, uid, Chunking>>

\* "collection.add(...)" and "return len(chunks)"
UpdateAdded ==
    /\ request.op = "update_documents" /\ request.status = 0
    /\ request.i = Len(request.doc_ids)
    /\ collection' = Add(collection, request.chunks)
    /\ request' = [request EXCEPT !.status = 200]
    /\ UNCHANGED <<uid, Chunking>>

\* the caller has the result
UpdateReturned ==
    /\ request.op = "update_documents" /\ request.status = 200
    /\ request' = Idle(request.served + 1)
    /\ UNCHANGED <<collection, uid, Chunking>>

NextService ==
    \/ ServiceAdd
    \/ UpdateDocuments
    \/ UpdateDeleted
    \/ UpdateLookupFailed
    \/ UpdateAdded
    \/ UpdateReturned

SpecService == InitService /\ [][NextService]_vars

-----------------------------------------------------------------------------
(* Properties *)

Done == pc = "done"
Returned == pc = "done" /\ outcome = "returned"
Contents(chs) == [i \in 1..Len(chs) |-> chs[i].content]
BaseKeys == {"chunk_type", "chunk_id", "chunk_index"}
\* a list of chunks without its chunk_id values
WithoutIds(chs) ==
    [i \in 1..Len(chs) |->
       [content |-> chs[i].content,
        metadata |-> [k \in (DOMAIN chs[i].metadata) \ {"chunk_id"} |->
                        chs[i].metadata[k]]]]
RECURSIVE Concat(_)
Concat(parts) == IF parts = <<>> THEN <<>> ELSE Head(parts) \o Concat(Tail(parts))
NotSpace(c) == c \notin Whitespace
NonWhitespace(s) == SelectSeq(s, NotSpace)
\* the paragraphs TextChunker works on: stripped and not empty
NotEmpty(s) == s # <<>>
Paragraphs(text) ==
    LET raw == SplitParagraphs(text)
    IN  SelectSeq([i \in 1..Len(raw) |-> Strip(raw[i])], NotEmpty)
ValidConfig == 0 <= chunk_overlap /\ chunk_overlap < chunk_size

\* C1: the chunk_index values of the chunks one call returns are 0, 1, ...,
\* n-1 in emission order, for every splitter and every input.
C1_IndexesCountFromZero ==
    Returned =>
      \A i \in 1..Len(chunks) : chunks[i].metadata.chunk_index = PyInt(i - 1)

\* C2: TextChunker with chunk_overlap < chunk_size: when every paragraph (and
\* so every sentence) of the input has at most chunk_size characters, every
\* chunk has at most chunk_size characters.
C2_TextSizeBound ==
    (Returned /\ chunker = "TextChunker" /\ ValidConfig
       /\ \A i \in 1..Len(Paragraphs(content)) :
            Len(Paragraphs(content)[i]) <= chunk_size)
    => \A i \in 1..Len(chunks) : Len(chunks[i].content) <= chunk_size

\* C3: TextChunker loses and repeats nothing; with chunk_overlap = 0 (no
\* character is shared by two windows) the characters of the chunks, joining
\* whitespace aside, are the characters of the input, whitespace aside.
C3_TextComplete ==
    (Returned /\ chunker = "TextChunker" /\ chunk_overlap = 0 /\ chunk_size > 0)
    => NonWhitespace(Concat(Contents(chunks))) = NonWhitespace(content)

\* C4: the chunk_id values of one call's chunks are pairwise distinct, and a
\* chunk HTMLChunker builds from a TextChunker chunk gets an identifier of
\* its own, not that chunk's.
C4_ChunkIdsDistinct ==
    Returned =>
      /\ \A i, j \in 1..Len(chunks) :
           i # j => chunks[i].metadata.chunk_id # chunks[j].metadata.chunk_id
      /\ \A i \in 1..Len(chunks) : chunks[i].metadata.chunk_id \notin text_ids
C4_Witness ==
    /\ Returned /\ chunker = "HTMLChunker" /\ Len(chunks) >= 3
    /\ Cardinality(text_ids) >= 2
    /\ \E i \in 1..Len(chunks) : "sub_chunk" \in DOMAIN chunks[i].metadata

\* the windows sentence[k*s : k*s + size] for s = size - overlap and every
\* k >= 0 with k*s < len(sentence), in increasing k
C5_Windows(sentence, size, overlap) ==
    LET s == size - overlap
        ks == {k \in 0..Len(sentence) : k * s < Len(sentence)}
    IN  [j \in 1..Cardinality(ks) |->
           SubSeq(sentence, (j - 1) * s + 1,
                  IF (j - 1) * s + size < Len(sentence)
                  THEN (j - 1) * s + size ELSE Len(sentence))]
\* xs occurs in ys as a run of consecutive elements
IsRunOf(xs, ys) ==
    \E d \in 0..(Len(ys) - Len(xs)) : \A j \in 1..Len(xs) : ys[d + j] = xs[j]

\* C5: TextChunker with 0 <= chunk_overlap < chunk_size emits a sentence longer
\* than chunk_size as its character windows, one chunk per window, in order,
\* each of at most chunk_size characters; a content that is one such sentence
\* yields exactly these chunks.
C5_OversizedSentenceWindows ==
    (Done /\ chunker = "TextChunker" /\ ValidConfig)
    => /\ outcome = "returned"
       /\ \A i \in 1..Len(Paragraphs(content)) :
            LET sentences == SplitSentences(Paragraphs(content)[i])
            IN  Len(Paragraphs(content)[i]) > chunk_size =>
                  \A j \in 1..Len(sentences) :
                    Len(sentences[j]) > chunk_size =>
                      LET ws == C5_Windows(sentences[j], chunk_size, chunk_overlap)
                      IN  /\ IsRunOf(ws, Contents(chunks))
                          /\ \A k \in 1..Len(ws) : Len(ws[k]) <= chunk_size
       /\ (Paragraphs(content) = <<content>> /\ SplitSentences(content) = <<content>>
           /\ Len(content) > chunk_size)
          => /\ Contents(chunks) = C5_Windows(content, chunk_size, chunk_overlap)
             /\ \A k \in 1..Len(chunks) : chunks[k].metadata.chunk_index = PyInt(k - 1)
\* the scenario of 2500 characters, chunk_size 1000, chunk_overlap 200 at the
\* scale of the model: 7 characters, chunk_size 3, chunk_overlap 1, so a step
\* of 2 and the 4 windows at 0, 2, 4, 6
C5_Witness ==
    /\ Returned /\ chunker = "TextChunker"
    /\ content = <<"a", "a", "a", "a", "a", "a", "a">>
    /\ chunk_size = 3 /\ chunk_overlap = 1
    /\ Contents(chunks) = <<<<"a", "a", "a">>, <<"a", "a", "a">>, <<"a", "a", "a">>, <<"a">>>>

\* C6: with chunk_size - chunk_overlap <= 0 TextChunker still returns, and an
\* oversized sentence is cut with a step of 1: a content that is one sentence
\* longer than chunk_size >= 1 comes back as its windows at 0, 1, 2, ...
C6_StepClamped ==
    (Done /\ chunker = "TextChunker" /\ chunk_size - chunk_overlap <= 0)
    => /\ outcome = "returned"
       /\ (chunk_size >= 1 /\ Paragraphs(content) = <<content>>
           /\ SplitSentences(content) = <<content>> /\ Len(content) > chunk_size)
          => Contents(chunks) = C5_Windows(content, chunk_size, chunk_size - 1)

\* C7: a call with chunk_overlap >= chunk_size or chunk_size <= 0 is rejected
\* before any splitting: it does not return, and it yields no chunk.
C7_DegenerateConfigRejected ==
    (Done /\ (chunk_overlap >= chunk_size \/ chunk_size <= 0))
    => outcome # "returned" /\ chunks = <<>>

\* C8: on a content that does not parse as JSON, JsonChunker does what
\* TextChunker does on it with the same sizes: the same outcome, and the same
\* chunks but for the chunk_id values; with 0 <= chunk_overlap < chunk_size
\* the call returns.
C8_JsonFallbackIsTextChunker ==
    (Done /\ chunker = "JsonChunker" /\ ~Loads(content).ok)
    => LET text == TextChunk(content, chunk_size, chunk_overlap, 0)
       IN  /\ outcome = text.outcome
           /\ WithoutIds(chunks) = WithoutIds(text.chunks)
           /\ ValidConfig => outcome = "returned"
C8_Witness ==
    /\ Returned /\ chunker = "JsonChunker" /\ ~Loads(content).ok
    /\ Len(chunks) >= 3
    /\ \E i \in 1..Len(chunks) : Len(chunks[i].content) >= 3

\* C9 as stated: every chunk JsonChunker returns, parse failure included, has
\* chunk_type "json" and no key besides chunk_type, chunk_id, chunk_index.
C9_AlwaysJsonType ==
    (Returned /\ chunker = "JsonChunker")
    => \A i \in 1..Len(chunks) :
         /\ DOMAIN chunks[i].metadata = BaseKeys
         /\ chunks[i].metadata.chunk_type = PyStr(TypeJson)

\* C9 amended: every chunk JsonChunker returns has exactly the keys
\* chunk_type, chunk_id, chunk_index; chunk_type is "json" when the content
\* parses as JSON and "text" when it does not.
C9_JsonTypeWhenParsed ==
    (Returned /\ chunker = "JsonChunker")
    => LET type == IF Loads(content).ok THEN PyStr(TypeJson) ELSE PyStr(TypeText)
       IN  \A i \in 1..Len(chunks) :
             /\ DOMAIN chunks[i].metadata = BaseKeys
             /\ chunks[i].metadata.chunk_type = type
C9_Witness ==
    /\ Returned /\ chunker = "JsonChunker" /\ Loads(content).ok
    /\ Len(chunks) >= 2
    /\ chunks[2].metadata.chunk_type = PyStr(TypeJson)

\* json.loads of every chunk's content
ParsedChunks(chs) == [i \in 1..Len(chs) |-> Loads(chs[i].content)]
IsObject(loaded) == loaded.ok /\ loaded.v.t = "obj"
\* the key/value pairs of the objects the chunks hold, in emission order
RECURSIVE ChunkPairs(_)
ChunkPairs(parsed) ==
    IF parsed = <<>> THEN <<>>
    ELSE Head(parsed).v.pairs \o ChunkPairs(Tail(parsed))
C10_Partition(loaded, parsed) ==
    IsObject(loaded)
    => /\ outcome = "returned"
       /\ \A i \in 1..Len(parsed) : IsObject(parsed[i])
       /\ ChunkPairs(parsed) = loaded.v.pairs

\* C10: on a JSON object every chunk's content parses as a JSON object, and
\* the keys and values of these objects, in emission order, are the keys
\* and values of the input in its order: each top-level key is in exactly
\* one chunk, and a chunk holds a run of consecutive keys.
C10_ObjectKeysPartitioned ==
    (Done /\ chunker = "JsonChunker")
    => C10_Partition(Loads(content), ParsedChunks(chunks))
C10_Witness ==
    /\ Returned /\ chunker = "JsonChunker" /\ Loads(content).ok
    /\ Loads(content).v.t = "obj" /\ Len(Loads(content).v.pairs) = 3
    /\ Len(chunks) = 2
    /\ Len(Loads(chunks[1].content).v.pairs) = 2

\* the top-level items of a JSON value: the pairs of an object, the elements
\* of an array, the value itself otherwise
ItemsOf(v) ==
    IF v.t = "obj" THEN v.pairs ELSE IF v.t = "arr" THEN v.items ELSE <<v>>
IsContainer(loaded) == loaded.ok /\ loaded.v.t \in {"obj", "arr"}
\* the serialized size of one top-level item: json.dumps({key: value}) for a
\* key of an object, json.dumps(item) for an element of an array
ItemSize(item, kind) ==
    Len(Dumps(IF kind = "obj" THEN JObj(<<item>>) ELSE item))
RECURSIVE SumSizes(_, _)
SumSizes(items, kind) ==
    IF items = <<>> THEN 0
    ELSE ItemSize(Head(items), kind) + SumSizes(Tail(items), kind)
\* the items each chunk holds, in emission order
ChunkGroups(parsed) == [i \in 1..Len(parsed) |-> ItemsOf(parsed[i].v)]
C11_Packing(loaded, parsed, groups) ==
    IsContainer(loaded)
    => /\ outcome = "returned"
       /\ \A i \in 1..Len(parsed) : parsed[i].ok
       /\ Concat(groups) = ItemsOf(loaded.v)
       /\ \A i \in 1..Len(groups) :
            (\E j \in 1..Len(groups[i]) :
               ItemSize(groups[i][j], loaded.v.t) > chunk_size)
            => Len(groups[i]) = 1
       /\ \A i \in 1..(Len(groups) - 1) :
            SumSizes(groups[i], loaded.v.t)
              + ItemSize(groups[i + 1][1], loaded.v.t) > chunk_size

\* C11: on a JSON object or array, the chunks hold the top-level items in
\* order, an item whose own serialized size exceeds chunk_size is the only
\* item of its chunk wherever it stands, and the packing is greedy: a chunk
\* ends only where the sizes of its items plus the size of the next item
\* exceed chunk_size.
C11_OversizedItemAlone ==
    (Done /\ chunker = "JsonChunker")
    => C11_Packing(Loads(content), ParsedChunks(chunks),
                   ChunkGroups(ParsedChunks(chunks)))
C11_Witness ==
    /\ Returned /\ chunker = "JsonChunker" /\ chunk_size = 4
    /\ content = Dumps(JArr(<<JInt(1), JInt(1), JStr(<<"x", "x", "x", "x">>)>>))
    /\ Contents(chunks) = <<Dumps(JArr(<<JInt(1), JInt(1)>>)),
                            Dumps(JArr(<<JStr(<<"x", "x", "x", "x">>)>>))>>

C12_Bound(loaded, parsed) ==
    IsContainer(loaded)
    => \A i \in 1..Len(parsed) :
         (parsed[i].ok /\ Len(ItemsOf(parsed[i].v)) >= 2)
         => Len(chunks[i].content) <= chunk_size

\* C12: on a JSON object or array, every chunk that packs two or more
\* top-level keys or elements has at most chunk_size characters.
C12_PackedWithinSize ==
    (Returned /\ chunker = "JsonChunker")
    => C12_Bound(Loads(content), ParsedChunks(chunks))

IsArray(loaded) == loaded.ok /\ loaded.v.t = "arr"
C13_Arrays(loaded, parsed) ==
    IsArray(loaded)
    => /\ outcome = "returned"
       /\ \A i \in 1..Len(parsed) : IsArray(parsed[i])
       /\ Concat(ChunkGroups(parsed)) = loaded.v.items

\* C13: on a JSON array every chunk's content parses as a JSON array, a
\* chunk made of one oversized element included, and the elements of these
\* arrays, in emission order, are the elements of the input in its order.
C13_ArrayChunksAreArrays ==
    (Done /\ chunker = "JsonChunker")
    => C13_Arrays(Loads(content), ParsedChunks(chunks))

\* the selector as stated: content_type when one is given, detection otherwise
C14_Selector ==
    IF content_type = PyNone THEN DetectContentType(content) ELSE content_type.str
C14_Same(expected) == outcome = expected.outcome /\ chunks = expected.chunks

\* C14: SmartChunker returns what the selected splitter returns on the same
\* content and sizes, the selector being content_type whenever one is given
\* (any string) and detect_content_type(content) only when none is; "html",
\* "code" and "json" select their splitter, every other value TextChunker.
C14_DispatchBySuppliedType ==
    (Done /\ chunker = "SmartChunker")
    => C14_Same(SmartDispatch(C14_Selector, content, soup, chunk_size, chunk_overlap, 0))

\* C15: detect_content_type returns, and its answer is "html" when an HTML
\* marker matches; else "json" when the trimmed content is bracket-delimited
\* and parses as JSON; else "code" when a code signature matches; else
\* "text".
C15_DetectionOrder ==
    (Done /\ chunker = "detect_content_type")
    => /\ outcome = "returned"
       /\ detected \in {PyStr(TypeHtml), PyStr(TypeJson), PyStr(TypeCode), PyStr(TypeText)}
       /\ (detected = PyStr(TypeHtml)) <=> Search(HtmlMarkers, content)
       /\ (detected = PyStr(TypeJson))
            <=> /\ ~Search(HtmlMarkers, content)
                /\ Bracketed(Strip(content)) /\ Loads(Strip(content)).ok
       /\ (detected = PyStr(TypeCode))
            <=> /\ ~Search(HtmlMarkers, content)
                /\ ~(Bracketed(Strip(content)) /\ Loads(Strip(content)).ok)
                /\ Search(CodeSignatures, content)
C15_Witness ==
    /\ Done /\ chunker = "detect_content_type"
    /\ content = MarkerInJson.content
    /\ Loads(content).ok
    /\ detected = PyStr(TypeHtml)

\* the elements of the allowlist in document order, and their flattened text
IsAllowlisted(node) == \E i \in 1..Len(SectionTags) : SectionTags[i] = node.tag
Allowlisted(tree) == SelectSeq(tree.nodes, IsAllowlisted)
SectionText(node) == JoinWith(node.strings, <<" ">>)
HasText(node) == SectionText(node) # <<>>
AllFit(nodes, size) == \A i \in 1..Len(nodes) : Len(SectionText(nodes[i])) <= size
\* what a chunk says of its element: content, section_id, section_class
SectionKeys == {"section_id", "section_class"}
Tagged(chs) ==
    [i \in 1..Len(chs) |->
       [content |-> chs[i].content,
        section_id |-> chs[i].metadata.section_id,
        section_class |-> chs[i].metadata.section_class]]
ExpectedTag(node, text) ==
    [content |-> text,
     section_id |-> PyStr(node.id),
     section_class |-> PyStr(JoinWith(node.class, <<" ">>))]
Occurrences(q, x) == Cardinality({i \in 1..Len(q) : q[i] = x})
SameBag(q, r) ==
    /\ Len(q) = Len(r)
    /\ \A i \in 1..Len(q) : Occurrences(q, q[i]) = Occurrences(r, q[i])
\* the title and the <meta> values of the document are in the metadata
HoldsHead(metadata, tree) ==
    /\ "title" \in DOMAIN metadata /\ metadata.title = TitleOf(tree)
    /\ \A i \in 1..Len(tree.metas) :
         (tree.metas[i].name # "" /\ tree.metas[i].content # <<>>)
         => /\ tree.metas[i].name \in DOMAIN metadata
            /\ metadata[tree.metas[i].name] = MetaValue(tree.metas[i].content)
C18_Sections(nodes) ==
    /\ outcome = "returned"
    /\ \A i \in 1..Len(chunks) :
         /\ SectionKeys \subseteq DOMAIN chunks[i].metadata
         /\ HoldsHead(chunks[i].metadata, soup)
    /\ SameBag(Tagged(chunks),
               [i \in 1..Len(nodes) |-> ExpectedTag(nodes[i], SectionText(nodes[i]))])

\* C18: on a document with allowlisted elements whose flattened texts all
\* have at most chunk_size characters, HTMLChunker returns one chunk per
\* allowlisted element with non-empty text and none for the others; the
\* chunk's content is the element's text, its metadata holds the title, the
\* value of every <meta name content> and the element's section_id and
\* section_class ("" when the attribute is absent).
C18_OneChunkPerSmallSection ==
    (Done /\ chunker = "HTMLChunker" /\ Allowlisted(soup) # <<>>
       /\ AllFit(Allowlisted(soup), chunk_size))
    => C18_Sections(SelectSeq(Allowlisted(soup), HasText))

\* the allowlisted elements with text, tag by tag in the order of the
\* allowlist and in document order within a tag
ByTagThenDocument(tree, k) ==
    LET IsTag(node) == node.tag = SectionTags[k] /\ HasText(node)
    IN  SelectSeq(tree.nodes, IsTag)
\* the contents an element gives: its text, or TextChunker's cut of it
Pieces(text, size, overlap) ==
    IF Len(text) <= size THEN <<text>>
    ELSE Contents(TextChunk(text, size, overlap, 0).chunks)
TagsOfPieces(node, pieces) == [j \in 1..Len(pieces) |-> ExpectedTag(node, pieces[j])]
TagsOfNodes(nodes, size, overlap) ==
    Concat([i \in 1..Len(nodes) |->
              TagsOfPieces(nodes[i], Pieces(SectionText(nodes[i]), size, overlap))])
C19_Expected(tree, size, overlap) ==
    Concat([k \in 1..Len(SectionTags) |->
              TagsOfNodes(ByTagThenDocument(tree, k), size, overlap)])

\* C19: the chunks of HTMLChunker come tag by tag in the order of the
\* allowlist, and in document order within one tag: every chunk of a div
\* precedes every chunk of a section, wherever the elements stand in the
\* document.
C19_AllowlistOrder ==
    (Returned /\ chunker = "HTMLChunker" /\ Allowlisted(soup) # <<>>)
    => /\ \A i \in 1..Len(chunks) : SectionKeys \subseteq DOMAIN chunks[i].metadata
       /\ Tagged(chunks) = C19_Expected(soup, chunk_size, chunk_overlap)
C19_Witness ==
    /\ Returned /\ chunker = "HTMLChunker"
    /\ Len(soup.nodes) = 2
    /\ soup.nodes[1].tag = "section" /\ soup.nodes[2].tag = "div"
    /\ SectionText(soup.nodes[1]) = <<"a">>
    /\ SectionText(soup.nodes[2]) = <<"a", " ", "a">>
    /\ chunk_size = 3
    /\ Contents(chunks) = <<<<"a", " ", "a">>, <<"a">>>>

\* the base metadata as stated: chunk_type "html", the title, the <meta> values
RECURSIVE MetaMap(_)
MetaMap(metas) ==
    IF metas = <<>> THEN <<>>
    ELSE LET meta == metas[Len(metas)]
             rest == MetaMap(SubSeq(metas, 1, Len(metas) - 1))
         IN  IF meta.name # "" /\ meta.content # <<>>
             THEN Update(rest, meta.name :> MetaValue(meta.content))
             ELSE rest
C20_Base(tree) ==
    Update(MetaMap(tree.metas), [chunk_type |-> PyStr(TypeHtml), title |-> TitleOf(tree)])
C20_OfNode(node, base, text, size, overlap) ==
    LET own == [section_id |-> PyStr(node.id),
                section_class |-> PyStr(JoinWith(node.class, <<" ">>))]
        pieces == Pieces(text, size, overlap)
    IN  IF Len(text) <= size
        THEN <<[content |-> text, plain |-> TRUE]>>
        ELSE [j \in 1..Len(pieces) |->
                [content |-> pieces[j],
                 metadata |-> Update(Update(base, own),
                                     [sub_chunk |-> PyBool(TRUE),
                                      original_chunk_type |-> PyStr(TypeText)])]]
C20_OfNodes(nodes, base, size, overlap) ==
    Concat([i \in 1..Len(nodes) |->
              C20_OfNode(nodes[i], base, SectionText(nodes[i]), size, overlap)])
C20_Expected(tree, base, size, overlap) ==
    Concat([k \in 1..Len(SectionTags) |->
              C20_OfNodes(ByTagThenDocument(tree, k), base, size, overlap)])
\* a list of chunks: a chunk with sub_chunk or original_chunk_type as its
\* content and its metadata without chunk_id and chunk_index, a chunk with
\* neither as its content
SubKeys == {"sub_chunk", "original_chunk_type"}
SubChunksInFull(chs) ==
    [i \in 1..Len(chs) |->
       IF SubKeys \cap DOMAIN chs[i].metadata = {}
       THEN [content |-> chs[i].content, plain |-> TRUE]
       ELSE [content |-> chs[i].content,
             metadata |-> [k \in (DOMAIN chs[i].metadata) \ {"chunk_id", "chunk_index"} |->
                             chs[i].metadata[k]]]]

\* C20: an allowlisted element whose text is longer than chunk_size gives the
\* chunks TextChunker gives for that text with the same sizes, each with
\* chunk_type "html", the title, the <meta> values, the element's section_id
\* and section_class, sub_chunk true and original_chunk_type "text"; the
\* chunk of an element that fits has neither sub_chunk nor
\* original_chunk_type.
C20_OversizedSectionSubChunks ==
    (Returned /\ chunker = "HTMLChunker" /\ Allowlisted(soup) # <<>>)
    => SubChunksInFull(chunks)
         = C20_Expected(soup, C20_Base(soup), chunk_size, chunk_overlap)

\* the invocations that have returned or raised
DoneCalls == {i \in 1..Len(calls) : calls[i].at = "done"}
SameResult(r, q) ==
    IF "detected" \in DOMAIN r THEN r = q
    ELSE r.outcome = q.outcome /\ WithoutIds(r.chunks) = WithoutIds(q.chunks)

C17_Alone(args, result) ==
    LET alone == SmartChunk(args.content, args.soup, args.content_type,
                            args.chunk_size, args.chunk_overlap, 0)
    IN  result.outcome = alone.outcome /\ WithoutIds(result.chunks) = WithoutIds(alone.chunks)
C17_InterleavedAsAlone ==
    \A i \in DoneCalls :
      calls[i].args.op = "chunk" => C17_Alone(calls[i].args, calls[i].result)
C17_Witness ==
    /\ Len(calls) = 2 /\ DoneCalls = {1, 2}
    /\ calls[1].kind = "code" /\ calls[2].kind = "code"
    /\ Len(calls[1].result.chunks) = 2 /\ Len(calls[2].result.chunks) = 2
    /\ calls[1].result.chunks[1].metadata.chunk_id = Uuid4(0)
    /\ calls[2].result.chunks[1].metadata.chunk_id = Uuid4(1)
    /\ calls[1].result.chunks[2].metadata.chunk_id = Uuid4(2)

\* what the whole-text fallback gives: TextChunker's chunks of the text of
\* soup.get_text(separator='\n', strip=True)
VisibleText(tree) == JoinWith(AllStrings(tree), <<"\n">>)
C21_Text(tree, size, overlap) == TextChunk(VisibleText(tree), size, overlap, 0)
FallbackKeys(tree) ==
    {"chunk_type", "title", "chunk_id", "chunk_index", "original_chunk_type"}
       \union {tree.metas[i].name : i \in 1..Len(tree.metas)}
\* the base metadata: chunk_type and title, then the <meta> values by name
C21_Base(tree) ==
    Update([chunk_type |-> PyStr(TypeHtml), title |-> TitleOf(tree)], MetaMap(tree.metas))
C21_Retagged(metadata, tree) ==
    /\ DOMAIN metadata =
         FallbackKeys(tree) \ {"section_id", "section_class", "sub_chunk"}
    /\ \A k \in (DOMAIN metadata) \ {"chunk_id", "chunk_index", "original_chunk_type"} :
         k \in DOMAIN C21_Base(tree) /\ metadata[k] = C21_Base(tree)[k]
    /\ metadata.original_chunk_type = PyStr(TypeText)
C21_Fallback ==
    /\ outcome = C21_Text(soup, chunk_size, chunk_overlap).outcome
    /\ Contents(chunks) = Contents(C21_Text(soup, chunk_size, chunk_overlap).chunks)
    /\ \A i \in 1..Len(chunks) : C21_Retagged(chunks[i].metadata, soup)
C21_BySections ==
    /\ \A i \in 1..Len(chunks) : SectionKeys \subseteq DOMAIN chunks[i].metadata
    /\ (\A i \in 1..Len(soup.nodes) : IsAllowlisted(soup.nodes[i]) => ~HasText(soup.nodes[i]))
         => outcome = "returned" /\ chunks = <<>>

\* C21: on a document without an allowlisted element HTMLChunker ends as
\* TextChunker ends on the newline-joined text of the document and returns
\* TextChunker's chunks of it, same contents in the same order, each with the
\* title, the <meta> values and original_chunk_type "text" and without
\* section_id, section_class and sub_chunk; on a document with an allowlisted
\* element every chunk comes from an element (it has section_id and
\* section_class), and nothing is returned when all of them are empty.
C21_WholeTextFallback ==
    (Done /\ chunker = "HTMLChunker")
    => IF Allowlisted(soup) = <<>> THEN C21_Fallback ELSE C21_BySections

ChunkTypes == {PyStr(TypeText), PyStr(TypeHtml), PyStr(TypeCode), PyStr(TypeJson)}
C22_Keys(metadata) ==
    /\ BaseKeys \subseteq DOMAIN metadata
    /\ metadata.chunk_type \in ChunkTypes
    /\ "str" \in DOMAIN metadata.chunk_id
    /\ "int" \in DOMAIN metadata.chunk_index

\* C22: every chunk a splitter returns has chunk_type, chunk_id and
\* chunk_index in its metadata, chunk_id a string, chunk_index an integer
\* and chunk_type one of "text", "html", "code", "json", whatever the names
\* of the <meta> tags of an HTML document are.
C22_ChunkTypeFromSplitter ==
    Returned => \A i \in 1..Len(chunks) : C22_Keys(chunks[i].metadata)

\* the import lines of a text and its other lines, in the order of the text
IsImport(line) == Match(ImportPatterns, line)
IsBody(line) == ~Match(ImportPatterns, line)
ImportLines(text) == SelectSeq(SplitLines(text), IsImport)
BodyLines(text) == SelectSeq(SplitLines(text), IsBody)
StartsWithLines(text, lines) ==
    /\ Len(SplitLines(text)) >= Len(lines)
    /\ SubSeq(SplitLines(text), 1, Len(lines)) = lines

\* C23: every chunk CodeChunker returns begins with all the import lines of
\* the document, in the order of the document.
C23_AllImportsInEveryChunk ==
    (Returned /\ chunker = "CodeChunker")
    => \A i \in 1..Len(chunks) : StartsWithLines(chunks[i].content, ImportLines(content))

\* overlaps below, at and above chunk_size
C24_Overlaps == 0..(MaxOverlap + 1) \union {chunk_size, chunk_size + 1}

\* C24: what CodeChunker returns for a content and a chunk_size is what it
\* returns for them with any other chunk_overlap: the same chunks, chunk_id
\* apart (contents, language, chunk_type, chunk_index).
C24_OverlapIgnored ==
    (Done /\ chunker = "CodeChunker")
    => \A o \in C24_Overlaps :
         /\ CodeChunk(content, chunk_size, o, 0).outcome = outcome
         /\ WithoutIds(CodeChunk(content, chunk_size, o, 0).chunks) = WithoutIds(chunks)
C24_Witness ==
    /\ Done /\ chunker = "CodeChunker" /\ outcome = "returned"
    /\ chunk_overlap = 1 /\ chunk_size = 0
    /\ Len(chunks) = 2

LinesOfChunks(chs) == [i \in 1..Len(chs) |-> SplitLines(chs[i].content)]
BodiesOfChunks(chs) == [i \in 1..Len(chs) |-> BodyLines(chs[i].content)]
InSomeChunk(line, chs) ==
    \E i \in 1..Len(chs) : \E j \in 1..Len(SplitLines(chs[i].content)) :
       SplitLines(chs[i].content)[j] = line

\* C28: every line of the document is a line of at least one chunk that
\* CodeChunker returns, and the lines of the chunks that are not import
\* lines, taken chunk after chunk, are the lines of the document that are not
\* import lines, each once and in the order of the document.
C28_NoLineLost ==
    (Returned /\ chunker = "CodeChunker")
    => /\ \A k \in 1..Len(SplitLines(content)) : InSomeChunk(SplitLines(content)[k], chunks)
       /\ Concat(BodiesOfChunks(chunks)) = BodyLines(content)

InBlock(st) == st.in_function \/ st.in_class
\* sum of len(line) + 1 over the lines
RECURSIVE AccumulatedSize(_)
AccumulatedSize(lines) ==
    IF lines = <<>> THEN 0 ELSE Len(Head(lines)) + 1 + AccumulatedSize(Tail(lines))
\* the k-th line is not an import line: mid are the locals right after
\* the line is appended, after those at the end of the pass
C26_Pass(mid, after, size) ==
    /\ (Len(after.chunks) > Len(mid.chunks))
         <=> (AccumulatedSize(mid.current_chunk) > size /\ ~InBlock(mid))
    /\ Len(after.chunks) > Len(mid.chunks)
         => /\ Len(after.chunks) = Len(mid.chunks) + 1
            /\ after.chunks[Len(after.chunks)].content
                 = JoinWith(mid.imports \o mid.current_chunk, <<"\n">>)
            /\ after.current_chunk = <<>>
    /\ Len(after.chunks) = Len(mid.chunks) => after = mid
    /\ InBlock(after) = InBlock(mid)
C26_AfterLine(st, size) ==
    /\ st.current_size = AccumulatedSize(st.current_chunk)
    /\ ~InBlock(st) => AccumulatedSize(st.current_chunk) <= size

\* C26: in every pass of CodeChunker's loop over a line that is not an import
\* line, a chunk is emitted after the line is appended exactly when the
\* accumulated size (len(line) + 1 summed over the accumulated lines) exceeds
\* chunk_size and the splitter is in no function or class block; after every
\* line, in no block the accumulated size is at most chunk_size, and in a
\* block nothing is emitted after the append however large it is.
C26_SizeFlushOutsideBlocks ==
    (Done /\ chunker = "CodeChunker")
    => /\ WithoutIds(chunks)
            = WithoutIds(CodeFinish(CodeAfter(content, Len(SplitLines(content)), chunk_size),
                                    DetectLanguage(content)).chunks)
       /\ \A k \in 1..Len(SplitLines(content)) :
            /\ C26_AfterLine(CodeAfter(content, k, chunk_size), chunk_size)
            /\ IF IsImport(SplitLines(content)[k])
               THEN CodeAfter(content, k, chunk_size).chunks
                      = CodeAfter(content, k - 1, chunk_size).chunks
               ELSE C26_Pass(CodeAppended(content, k, chunk_size),
                             CodeAfter(content, k, chunk_size), chunk_size)
\* 'def f():' then 'class A' with chunk_size 4: nine characters accumulate in
\* the block of the first line, the second line is flushed on its size
C26_Witness ==
    /\ Done /\ chunker = "CodeChunker" /\ chunk_size = 4
    /\ Len(SplitLines(content)) = 2
    /\ InBlock(CodeAfter(content, 1, chunk_size))
    /\ AccumulatedSize(CodeAfter(content, 1, chunk_size).current_chunk) > chunk_size
    /\ CodeAfter(content, 1, chunk_size).chunks = <<>>
    /\ CodeAfter(content, 2, chunk_size).current_chunk = <<>>
    /\ Len(chunks) = 2

\* a line that starts a function or a class, and the depth counter after it
Declares(line) == Match(FunctionPatterns, line) \/ Match(ClassPatterns, line)
DepthAt(before, line) ==
    before.function_depth + (IF Declares(line) THEN 1 ELSE 0)
      + Count(line, "{") - Count(line, "}")
\* the k-th line, not an import line, is read with the locals before and is
\* the last line or not; mid are the locals right after it is appended
C27_Closes(before, line, last) ==
    (InBlock(before) \/ Declares(line)) /\ (DepthAt(before, line) <= 0 \/ last)
C27_Closed(before, mid, line) ==
    /\ IF before.current_chunk = <<>> THEN mid.chunks = before.chunks
       ELSE /\ Len(mid.chunks) = Len(before.chunks) + 1
            /\ SubSeq(mid.chunks, 1, Len(before.chunks)) = before.chunks
            /\ mid.chunks[Len(mid.chunks)].content
                 = JoinWith(before.imports \o before.current_chunk, <<"\n">>)
    /\ mid.current_chunk = <<line>>
    /\ ~mid.in_function /\ ~mid.in_class /\ mid.function_depth = 0
C27_Open(before, mid, line) ==
    /\ mid.chunks = before.chunks
    /\ mid.current_chunk = Append(before.current_chunk, line)
    /\ InBlock(mid) = (InBlock(before) \/ Declares(line))
    /\ mid.function_depth = DepthAt(before, line)
C27_Pass(before, mid, line, last) ==
    IF C27_Closes(before, line, last) THEN C27_Closed(before, mid, line)
    ELSE C27_Open(before, mid, line)

\* C27: in CodeChunker's loop a line that is not an import line closes the
\* block when, in a block or starting one, it leaves the depth counter at 0
\* or below or is the last line of the document: the lines accumulated
\* before it are emitted as one chunk (none if there are none), the depth is
\* 0 and both flags are false, and the line is the first of the next
\* accumulation.  Any other line leaves the block open and emits nothing
\* before it is appended; an import line changes neither block nor chunks.
C27_BlockCloses ==
    (Done /\ chunker = "CodeChunker")
    => \A k \in 1..Len(SplitLines(content)) :
         IF IsImport(SplitLines(content)[k])
         THEN CodeAfter(content, k, chunk_size)
                = [CodeAfter(content, k - 1, chunk_size) EXCEPT
                     !.imports = Append(@, SplitLines(content)[k])]
         ELSE C27_Pass(CodeAfter(content, k - 1, chunk_size),
                       CodeAppended(content, k, chunk_size),
                       SplitLines(content)[k], k = Len(SplitLines(content)))
\* 'def f():', '}', 'x' with chunk_size 12: the brace closes the block before
\* the last line, 'def f():' is emitted and '}' starts the next accumulation
C27_Witness ==
    /\ Done /\ chunker = "CodeChunker" /\ chunk_size = 12
    /\ Len(SplitLines(content)) = 3
    /\ InBlock(CodeAfter(content, 1, chunk_size))
    /\ SplitLines(content)[2] = <<"}">>
    /\ ~InBlock(CodeAppended(content, 2, chunk_size))
    /\ CodeAppended(content, 2, chunk_size).current_chunk = <<<<"}">>>>
    /\ Len(CodeAppended(content, 2, chunk_size).chunks) = 1
    /\ Contents(chunks) = <<SplitLines(content)[1], <<"}", "\n", "x">>>>

-----------------------------------------------------------------------------
(* add_documents *)

Adding == request.op = "add_documents"
\* what the engine returns for a document of the request
EngineChunks(doc) ==
    SmartChunk(doc.content, doc.soup, doc.content_type, doc.chunk_size,
               doc.chunk_overlap, uid).chunks
\* for every entry of all_chunks, the document of the request it was chunked
\* from: the documents are chunked in order, and the engine returns as many
\* chunks whatever identifiers it hands out
RECURSIVE SourcesOf(_, _)
SourcesOf(documents, i) ==
    IF i = 0 THEN <<>>
    ELSE SourcesOf(documents, i - 1)
         \o [k \in 1..Len(EngineChunks(documents[i])) |-> documents[i]]
IssuedIds == {Uuid4(n) : n \in 0..(uid - 1)}
\* the entry is the chunk of that document, with the caller's two fields
FromDocument(entry, doc) ==
    /\ entry.metadata.parent_document_id = PyStr(doc.uid)
    /\ entry.metadata.chunk_id \in IssuedIds
    /\ entry.id = doc.uid \o <<"-">> \o entry.metadata.chunk_id.str
C25_Labelled ==
    /\ Adding =>
         LET sources == SourcesOf(request.documents, request.i)
         IN  /\ Len(request.all_chunks) = Len(sources)
             /\ \A k \in 1..Len(sources) :
                   FromDocument(request.all_chunks[k], sources[k])
    /\ \A record \in collection :
          /\ record.metadata.chunk_id \in IssuedIds
          /\ record.id = record.metadata.parent_document_id.str \o <<"-">>
                         \o record.metadata.chunk_id.str
EntryIds == {request.all_chunks[k].id : k \in 1..Len(request.all_chunks)}
StoredIds == {record.id : record \in collection}
\* nothing of the request is stored while its documents are being chunked or
\* when one of them failed, and all of it is stored once it succeeded
C25_AllOrNothing ==
    Adding =>
      /\ request.status \in {0, 500} => EntryIds \cap StoredIds = {}
      /\ request.status = 200 =>
           /\ request.i = Len(request.documents)
           /\ \A k \in 1..Len(request.all_chunks) : request.all_chunks[k] \in collection
NextDocument == request.documents[request.i + 1]
Chunkable == Adding /\ request.status = 0 /\ request.i < Len(request.documents)
HasMeta(doc, name) == \E m \in 1..Len(doc.soup.metas) : doc.soup.metas[m].name = name
C25_EngineNeverSets ==
    Chunkable =>
      \A k \in 1..Len(EngineChunks(NextDocument)) :
         "parent_document_id" \notin DOMAIN EngineChunks(NextDocument)[k].metadata
C25_EngineOnlyCopies ==
    Chunkable =>
      \A k \in 1..Len(EngineChunks(NextDocument)) :
         LET metadata == EngineChunks(NextDocument)[k].metadata
         IN  "parent_document_id" \in DOMAIN metadata =>
               /\ NextDocument.content_type = PyStr(TypeHtml)
               /\ HasMeta(NextDocument, "parent_document_id")
               /\ metadata.parent_document_id # PyStr(NextDocument.uid)

-----------------------------------------------------------------------------
(* update_documents *)

Updated == request.op = "update_documents" /\ request.status = 200
Listed == {PyStr(request.doc_ids[k]) : k \in 1..Len(request.doc_ids)}
Supplied == {request.chunks[k] : k \in 1..Len(request.chunks)}
\* C29: when update_documents has completed, the only stored chunks whose
\* parent_document_id is one of doc_ids are the chunks this update
\* supplied, however many chunks the previous version had and even if the
\* lookup of the old chunks failed
C29_OnlySuppliedChunksRemain ==
    Updated =>
      \A record \in collection :
         record.metadata.parent_document_id \in Listed => record \in Supplied
====
